---------------------------- MODULE Spec2Model ----------------------------
(***************************************************************************)
(* Model of the audio feature extractor of Vibehum (utils/audioAnalysis):  *)
(* detectTempo, detectPitch, calculateEnergy, classifyRhythm,              *)
(* detectContour and analyzeAudioBuffer.                                   *)
(*                                                                         *)
(* JavaScript numbers are modelled as exact rationals <<n, d>> (d > 0, in  *)
(* lowest terms) extended with the IEEE special values +Infinity <<1,0>>,  *)
(* -Infinity <<-1,0>> and NaN <<0,0>>.  Arithmetic follows IEEE-754 on the *)
(* special values; on finite values it is exact, i.e. the 2^-53 relative   *)
(* rounding of doubles is not modelled.  Math.sqrt is exact: the input     *)
(* families below only produce hop energies that are rational squares      *)
(* (EnvelopeExact).                                                        *)
(***************************************************************************)
EXTENDS Integers, Sequences, FiniteSets, TLC

(***************************************************************************)
(* Numbers                                                                 *)
(***************************************************************************)
Abs(x) == IF x < 0 THEN -x ELSE x

Sign(x) == IF x > 0 THEN 1 ELSE IF x < 0 THEN -1 ELSE 0

RECURSIVE GCD(_, _)
GCD(a, b) == IF b = 0 THEN a ELSE GCD(b, a % b)

\* the number n/d; n/0 is +-Infinity and 0/0 is NaN
Num(n, d) ==
  IF d = 0 THEN <<Sign(n), 0>>
  ELSE LET g == GCD(Abs(n), Abs(d))
       IN  <<(Sign(d) * n) \div g, Abs(d) \div g>>

NaN == <<0, 0>>
Infinity == <<1, 0>>
IsNaN(x) == x = NaN
IsFinite(x) == x[2] > 0

\* Common factors are cancelled before the products are formed, which
\* keeps the intermediate integers small.
Add(x, y) ==
  IF x[2] = 0 /\ y[2] = 0 THEN (IF x = y THEN x ELSE NaN)
  ELSE IF x[2] = 0 THEN x
  ELSE IF y[2] = 0 THEN y
  ELSE IF x[2] = 1 /\ y[2] = 1 THEN <<x[1] + y[1], 1>>
  ELSE IF x[1] = 0 THEN y
  ELSE IF y[1] = 0 THEN x
  ELSE IF x[2] = y[2] THEN Num(x[1] + y[1], x[2])
  ELSE LET g == GCD(x[2], y[2])
       IN  Num(x[1] * (y[2] \div g) + y[1] * (x[2] \div g), (x[2] \div g) * y[2])

Neg(x) == <<-x[1], x[2]>>

Sub(x, y) == Add(x, Neg(y))

Mul(x, y) ==
  IF x[2] = 0 \/ y[2] = 0 THEN Num(x[1] * y[1], 0)
  ELSE IF x[2] = 1 /\ y[2] = 1 THEN <<x[1] * y[1], 1>>
  ELSE IF x[1] = 0 \/ y[1] = 0 THEN <<0, 1>>
  ELSE LET g == GCD(Abs(x[1]), y[2])
           h == GCD(Abs(y[1]), x[2])
       IN  Num((x[1] \div g) * (y[1] \div h), (x[2] \div h) * (y[2] \div g))

Div(x, y) ==
  IF IsNaN(x) \/ IsNaN(y) THEN NaN
  ELSE IF x[2] = 0
    THEN (IF y[2] = 0 THEN NaN
          ELSE <<x[1] * (IF y[1] < 0 THEN -1 ELSE 1), 0>>)
    ELSE IF y[2] = 0 THEN <<0, 1>>
    ELSE IF y[1] = 0 THEN Num(x[1], 0)
    ELSE Mul(x, Num(y[2], y[1]))

Zero == Num(0, 1)
One == Num(1, 1)

RECURSIVE FractionLt(_, _, _, _)
\* a / b < c / d for naturals a, c and positive b, d, by comparing the
\* integer parts and then the reciprocals of the fractional parts, so that
\* no product is formed
FractionLt(a, b, c, d) ==
  IF a \div b # c \div d THEN a \div b < c \div d
  ELSE IF c % d = 0 THEN FALSE
  ELSE IF a % b = 0 THEN TRUE
  ELSE FractionLt(d, c % d, b, a % b)

\* IEEE comparisons: every comparison with NaN is false (the products are
\* formed only when they are below 2^31, i.e. for factors up to 46340)
Lt(x, y) ==
  /\ ~IsNaN(x) /\ ~IsNaN(y) /\ x # y
  /\ IF x[2] = 0 \/ y[2] = 0 THEN x[1] * y[2] < y[1] * x[2]
     ELSE IF Abs(x[1]) <= 46340 /\ Abs(y[1]) <= 46340
             /\ x[2] <= 46340 /\ y[2] <= 46340
       THEN LET g == GCD(x[2], y[2])
            IN  x[1] * (y[2] \div g) < y[1] * (x[2] \div g)
     ELSE IF x[1] < 0 /\ y[1] >= 0 THEN TRUE
     ELSE IF x[1] >= 0 /\ y[1] < 0 THEN FALSE
     ELSE IF x[1] < 0 THEN FractionLt(-y[1], y[2], -x[1], x[2])
     ELSE FractionLt(x[1], x[2], y[1], y[2])
Gt(x, y) == Lt(y, x)
Le(x, y) == ~IsNaN(x) /\ ~IsNaN(y) /\ (x = y \/ Lt(x, y))
Ge(x, y) == Le(y, x)

\* Math.abs
MathAbs(x) == <<Abs(x[1]), x[2]>>

\* Math.round: the nearest integer, halves rounded up; NaN and the
\* infinities are returned unchanged
MathRound(x) ==
  IF x[2] = 0 THEN x ELSE <<(2 * x[1] + x[2]) \div (2 * x[2]), 1>>

\* Math.floor of a finite number, as an integer
MathFloor(x) == x[1] \div x[2]

RECURSIVE ISqrt(_, _, _)
\* the largest r in lo..hi with r * r <= n (bisection)
ISqrt(n, lo, hi) ==
  IF lo >= hi THEN lo
  ELSE LET mid == (lo + hi + 1) \div 2
       IN  IF mid * mid <= n THEN ISqrt(n, mid, hi) ELSE ISqrt(n, lo, mid - 1)

\* the integer part of the square root of a natural number below 2^30
Root(n) == ISqrt(n, 0, 32767)

IsSquare(x) ==
  /\ IsFinite(x) /\ x[1] >= 0
  /\ Root(x[1]) * Root(x[1]) = x[1]
  /\ Root(x[2]) * Root(x[2]) = x[2]

\* Math.sqrt, exact on rational squares (the only arguments it is given)
MathSqrt(x) ==
  IF IsNaN(x) \/ x[1] < 0 THEN NaN
  ELSE IF x[2] = 0 THEN x
  ELSE <<Root(x[1]), Root(x[2])>>

\* Math.min and Math.max of two numbers (NaN if either is NaN)
MathMin(x, y) == IF IsNaN(x) \/ IsNaN(y) THEN NaN ELSE IF Lt(y, x) THEN y ELSE x
MathMax(x, y) == IF IsNaN(x) \/ IsNaN(y) THEN NaN ELSE IF Gt(y, x) THEN y ELSE x

\* element i of a JavaScript array (indices from 0)
At(arr, i) == arr[i + 1]

\* arr.slice(from, to)
Slice(arr, from, to) == SubSeq(arr, from + 1, to)

RECURSIVE SumRange(_, _, _)
\* f[lo] + ... + f[hi], 0 for an empty range; the range is halved so that
\* long arrays are summed at a small evaluation depth (addition is exact,
\* so the order of the additions does not matter)
SumRange(f, lo, hi) ==
  IF lo > hi THEN Zero
  ELSE IF lo = hi THEN f[lo]
  ELSE LET mid == (lo + hi) \div 2
       IN  Add(SumRange(f, lo, mid), SumRange(f, mid + 1, hi))

(***************************************************************************)
(* frequencyToNote                                                         *)
(***************************************************************************)
NOTE_FREQUENCIES ==
  << [note |-> "C",  freq |-> Num(26163, 100)],
     [note |-> "C#", freq |-> Num(27718, 100)],
     [note |-> "D",  freq |-> Num(29366, 100)],
     [note |-> "D#", freq |-> Num(31113, 100)],
     [note |-> "E",  freq |-> Num(32963, 100)],
     [note |-> "F",  freq |-> Num(34923, 100)],
     [note |-> "F#", freq |-> Num(36999, 100)],
     [note |-> "G",  freq |-> Num(39200, 100)],
     [note |-> "G#", freq |-> Num(41530, 100)],
     [note |-> "A",  freq |-> Num(44000, 100)],
     [note |-> "A#", freq |-> Num(46616, 100)],
     [note |-> "B",  freq |-> Num(49388, 100)] >>

NoteNames == {At(NOTE_FREQUENCIES, i).note : i \in 0..(Len(NOTE_FREQUENCIES) - 1)}

RECURSIVE NormalizeUp(_, _)
\* while (normalized < NOTE_FREQUENCIES[0].freq) { normalized *= 2; octave-- }
\* An iteration that leaves normalized unchanged while the guard holds
\* repeats forever: diverges.
NormalizeUp(normalized, octave) ==
  IF Lt(normalized, At(NOTE_FREQUENCIES, 0).freq)
    THEN (IF Mul(normalized, Num(2, 1)) = normalized
            THEN [diverges |-> TRUE, normalized |-> normalized, octave |-> octave]
            ELSE NormalizeUp(Mul(normalized, Num(2, 1)), octave - 1))
    ELSE [diverges |-> FALSE, normalized |-> normalized, octave |-> octave]

RECURSIVE NormalizeDown(_, _)
\* while (normalized >= NOTE_FREQUENCIES[0].freq * 2) { normalized /= 2; octave++ }
NormalizeDown(normalized, octave) ==
  IF Ge(normalized, Mul(At(NOTE_FREQUENCIES, 0).freq, Num(2, 1)))
    THEN (IF Div(normalized, Num(2, 1)) = normalized
            THEN [diverges |-> TRUE, normalized |-> normalized, octave |-> octave]
            ELSE NormalizeDown(Div(normalized, Num(2, 1)), octave + 1))
    ELSE [diverges |-> FALSE, normalized |-> normalized, octave |-> octave]

RECURSIVE ClosestNoteLast(_, _, _, _)
\* mutant of ClosestNote: the last minimum wins a tie
ClosestNoteLast(normalized, i, closest, minDist) ==
  IF i < Len(NOTE_FREQUENCIES)
    THEN LET dist == MathAbs(Sub(normalized, At(NOTE_FREQUENCIES, i).freq))
         IN  IF Le(dist, minDist)
               THEN ClosestNoteLast(normalized, i + 1, At(NOTE_FREQUENCIES, i), dist)
               ELSE ClosestNoteLast(normalized, i + 1, closest, minDist)
    ELSE closest

RECURSIVE ClosestNote(_, _, _, _)
\* the scan of NOTE_FREQUENCIES from index i on, keeping the first minimum
ClosestNote(normalized, i, closest, minDist) ==
  IF i < Len(NOTE_FREQUENCIES)
    THEN LET dist == MathAbs(Sub(normalized, At(NOTE_FREQUENCIES, i).freq))
         IN  IF Lt(dist, minDist)
               THEN ClosestNote(normalized, i + 1, At(NOTE_FREQUENCIES, i), dist)
               ELSE ClosestNote(normalized, i + 1, closest, minDist)
    ELSE closest

frequencyToNote(freq) ==
  IF Le(freq, Zero) THEN [diverges |-> FALSE, note |-> "C", octave |-> 4]
  ELSE LET up == NormalizeUp(freq, 4)
           down == NormalizeDown(up.normalized, up.octave)
           first == At(NOTE_FREQUENCIES, 0)
           closest == ClosestNote(down.normalized, 1, first,
                                  MathAbs(Sub(down.normalized, first.freq)))
       IN  IF up.diverges \/ down.diverges
             THEN [diverges |-> TRUE, note |-> "C", octave |-> 4]
             ELSE [diverges |-> FALSE, note |-> closest.note, octave |-> down.octave]

(***************************************************************************)
(* detectTempo                                                             *)
(***************************************************************************)
\* marks a call that never returns
Diverges == [diverges |-> TRUE]

\* Math.floor(sampleRate * 0.01)
HopSize(sampleRate) == MathFloor(Mul(Num(sampleRate, 1), Num(1, 100)))

\* sum = 0; for (j = from; j < to; j++) sum += channelData[j] * channelData[j]
SumSquares(channelData, from, to) ==
  SumRange([j \in from..(to - 1) |-> Mul(At(channelData, j), At(channelData, j))],
           from, to - 1)

\* the number of iterations of
\*   for (i = 0; i < channelData.length - hopSize; i += hopSize)
\* for hopSize >= 1: the i = 0, hopSize, 2 * hopSize, ... below length - hopSize
EnvelopeLength(length, hopSize) ==
  IF length - hopSize <= 0 THEN 0 ELSE (length - hopSize - 1) \div hopSize + 1

\* envelope.push(Math.sqrt(sum / hopSize)) for each of these i
Envelope(channelData, hopSize) ==
  [k \in 1..EnvelopeLength(Len(channelData), hopSize) |->
     MathSqrt(Div(SumSquares(channelData, (k - 1) * hopSize, k * hopSize),
                  Num(hopSize, 1)))]

\* Math.max(...values): NaN if a value is NaN, else the greatest one
MaxOf(values) ==
  IF NaN \in values THEN NaN
  ELSE CHOOSE x \in values : \A y \in values : Le(y, x)

EnvelopeFloor == Num(1, 10000)

\* envelope.map(v => v / Math.max(...envelope, 0.0001))
Normalize(envelope) ==
  LET maxEnv == MaxOf({envelope[k] : k \in 1..Len(envelope)} \cup {EnvelopeFloor})
  IN  [k \in 1..Len(envelope) |-> Div(envelope[k], maxEnv)]

windowSize == 8

RECURSIVE WindowSum(_, _, _, _)
\* for (j = i - windowSize; j < i; j++) avg += normalized[j]
WindowSum(normalized, j, i, avg) ==
  IF j < i THEN WindowSum(normalized, j + 1, i, Add(avg, At(normalized, j)))
  ELSE avg

\* the peak test of line 85 at envelope index i
IsPeak(normalized, i) ==
  LET avg == Div(WindowSum(normalized, i - windowSize, i, Zero), Num(windowSize, 1))
      threshold == Add(Mul(avg, Num(3, 2)), Num(5, 100))
  IN  /\ Gt(At(normalized, i), threshold)
      /\ Gt(At(normalized, i), At(normalized, i - 1))
      /\ Ge(At(normalized, i), At(normalized, i + 1))

\* (i * hopSize / sampleRate) * 1000
TimeMs(i, hopSize, sampleRate) ==
  Mul(Div(Num(i * hopSize, 1), Num(sampleRate, 1)), Num(1000, 1))

MinGapMs == Num(100, 1)

\* mutant of FarEnough: the minimum-gap test is left out
FarEnoughNoGap(onsets, timeMs) == TRUE

\* onsets.length === 0 || timeMs - onsets[onsets.length - 1] > 100
FarEnough(onsets, timeMs) ==
  Len(onsets) = 0 \/ Gt(Sub(timeMs, At(onsets, Len(onsets) - 1)), MinGapMs)

\* mutant of Candidates: the loop starts one index later
CandidatesFromNext(normalized) ==
  {i \in (windowSize + 1)..(Len(normalized) - 2) : IsPeak(normalized, i)}

\* the indices i of  for (i = windowSize; i < normalized.length - 1; i++)
\* that pass the peak test
Candidates(normalized) ==
  {i \in windowSize..(Len(normalized) - 2) : IsPeak(normalized, i)}

RECURSIVE OnsetLoopMovingReference(_, _, _, _)
\* mutant of OnsetLoop: a dropped candidate becomes the reference of the gap
OnsetLoopMovingReference(candidates, hopSize, sampleRate, onsets) ==
  IF candidates = {} THEN onsets
  ELSE LET i == CHOOSE c \in candidates : \A d \in candidates : c <= d
           timeMs == TimeMs(i, hopSize, sampleRate)
       IN  IF FarEnough(onsets, timeMs)
             THEN OnsetLoopMovingReference(candidates \ {i}, hopSize, sampleRate,
                                           Append(onsets, timeMs))
             ELSE OnsetLoopMovingReference(candidates \ {i}, hopSize, sampleRate,
                                           [onsets EXCEPT ![Len(onsets)] = timeMs])

RECURSIVE OnsetLoop(_, _, _, _)
\* the loop of lines 77-92 over the indices that pass the peak test, in
\* increasing order (the other indices leave onsets unchanged)
OnsetLoop(candidates, hopSize, sampleRate, onsets) ==
  IF candidates = {} THEN onsets
  ELSE LET i == CHOOSE c \in candidates : \A d \in candidates : c <= d
           timeMs == TimeMs(i, hopSize, sampleRate)
       IN  IF FarEnough(onsets, timeMs)
             THEN OnsetLoop(candidates \ {i}, hopSize, sampleRate,
                            Append(onsets, timeMs))
             ELSE OnsetLoop(candidates \ {i}, hopSize, sampleRate, onsets)

\* for (i = 1; i < onsets.length; i++) intervals.push(onsets[i] - onsets[i - 1])
Intervals(onsets) ==
  [i \in 1..(Len(onsets) - 1) |-> Sub(onsets[i + 1], onsets[i])]

\* the position (from 1) of arr[i] after a stable ascending sort
SortedPosition(arr, i) ==
  1 + Cardinality({j \in 1..Len(arr) :
                     Lt(arr[j], arr[i]) \/ (arr[j] = arr[i] /\ j < i)})

\* arr.sort((a, b) => a - b): ascending and stable
SortAscending(arr) ==
  LET position == [i \in 1..Len(arr) |-> SortedPosition(arr, i)]
  IN  [r \in 1..Len(arr) |-> arr[CHOOSE i \in 1..Len(arr) : position[i] = r]]

\* mutant of SortReceiver: the sort is called on the caller's samples
SortReceiverChannelData == "channelData"

\* the array that line 105 sorts in place
SortReceiver == "intervals"

RECURSIVE HalveBpm(_)
\* while (bpm > 200) bpm /= 2
HalveBpm(bpm) == IF Gt(bpm, Num(200, 1)) THEN HalveBpm(Div(bpm, Num(2, 1))) ELSE bpm

\* mutant of DoubleBpm: slow tempos are not doubled
DoubleBpmSkipped(bpm) == bpm

RECURSIVE DoubleBpm(_)
\* while (bpm < 60) bpm *= 2
DoubleBpm(bpm) == IF Lt(bpm, Num(60, 1)) THEN DoubleBpm(Mul(bpm, Num(2, 1))) ELSE bpm

\* mutant of ClampBpm: the halving loop tests after its body (do ... while)
ClampBpmDoWhile(bpm) == DoubleBpm(HalveBpm(Div(bpm, Num(2, 1))))

\* lines 111-112
ClampBpm(bpm) == DoubleBpm(HalveBpm(bpm))

\* mutant of DefaultBpm: another default
DefaultBpmOther == Num(100, 1)

DefaultBpm == Num(120, 1)

\* mutant of Median: the lower-middle element for an even count
MedianLowerMiddle(intervals) == At(intervals, (Len(intervals) - 1) \div 2)

\* intervals[Math.floor(intervals.length / 2)]
Median(intervals) == At(intervals, Len(intervals) \div 2)

\* The arrays of one detectTempo call are kept in a heap keyed by the name
\* of the variable that holds them, so that the in-place sort acts on the
\* array it is called on; channelData is the caller's array itself
\* (getChannelData returns it, not a copy).
TempoHeap(channelData, onsets) ==
  [channelData |-> channelData, onsets |-> onsets, intervals |-> Intervals(onsets)]

\* intervals.sort((a, b) => a - b)
SortInPlace(heap) == [heap EXCEPT ![SortReceiver] = SortAscending(@)]

\* lines 106-114, on the heap after the sort
TempoFromHeap(heap) ==
  [diverges |-> FALSE,
   bpm |-> MathRound(ClampBpm(Div(Num(60000, 1), Median(heap.intervals)))),
   onsets |-> heap.onsets,
   channelData |-> heap.channelData]

\* lines 94-114
TempoFromOnsets(channelData, onsets) ==
  IF Len(onsets) < 2
    THEN [diverges |-> FALSE, bpm |-> DefaultBpm, onsets |-> onsets,
          channelData |-> channelData]
    ELSE TempoFromHeap(SortInPlace(TempoHeap(channelData, onsets)))

\* lines 59-92
Onsets(channelData, hopSize, sampleRate) ==
  OnsetLoop(Candidates(Normalize(Envelope(channelData, hopSize))),
            hopSize, sampleRate, <<>>)

\* The result carries channelData, the caller's array as the call leaves it.
detectTempo(audioBuffer) ==
  IF /\ HopSize(audioBuffer.sampleRate) = 0
     /\ 0 < Len(audioBuffer.channelData) - HopSize(audioBuffer.sampleRate)
    THEN Diverges   \* i += 0 never reaches channelData.length
    ELSE TempoFromOnsets(audioBuffer.channelData,
                         Onsets(audioBuffer.channelData,
                                HopSize(audioBuffer.sampleRate),
                                audioBuffer.sampleRate))

(***************************************************************************)
(* calculateEnergy                                                         *)
(*                                                                         *)
(* rms = Math.sqrt(sumSquares / length) is irrational in general, so rms   *)
(* and energy = Math.min(rms * 3, 1) are carried as their squares; the     *)
(* comparisons and the rounding of the code are then exact.                *)
(***************************************************************************)
\* Math.sqrt(sq) < t, for t > 0
RootLt(sq, t) == Lt(sq, Mul(t, t))

\* Math.sqrt(sq) > t, for t > 0
RootGt(sq, t) == Gt(sq, Mul(t, t))

\* Math.round(Math.sqrt(sq) * k), for an integer k > 0
RoundRootTimes(sq, k) ==
  IF sq[2] = 0 THEN sq
  ELSE <<(Root(MathFloor(Mul(sq, Num(4 * k * k, 1)))) + 1) \div 2, 1>>

calculateEnergy(audioBuffer) ==
  LET channelData == audioBuffer.channelData
      sumSquares == SumSquares(channelData, 0, Len(channelData))
      rmsSq == Div(sumSquares, Num(Len(channelData), 1))
      energySq == MathMin(Mul(rmsSq, Num(9, 1)), One)
      level == IF RootLt(energySq, Num(3, 10)) THEN "low"
               ELSE IF RootLt(energySq, Num(6, 10)) THEN "moderate"
               ELSE "high"
  IN  [energy |-> Div(RoundRootTimes(energySq, 100), Num(100, 1)),
       level |-> level]

(***************************************************************************)
(* detectPitch                                                             *)
(*                                                                         *)
(* normFactor = Math.sqrt(norm1 * norm2) is irrational in general, so a     *)
(* correlation c is carried as its signed square sign(c) * c * c, which    *)
(* orders correlations exactly as c does.                                  *)
(***************************************************************************)
\* for (i = 0; i < compareLength; i++) { correlation += ...; norm1 += ...; norm2 += ... }
CorrelationSums(segment, lag, compareLength) ==
  [correlation |->
     SumRange([i \in 0..(compareLength - 1) |->
                 Mul(At(segment, i), At(segment, i + lag))], 0, compareLength - 1),
   norm1 |-> SumSquares(segment, 0, compareLength),
   norm2 |-> SumSquares(segment, lag, lag + compareLength)]

MaxCompareLength == 4096

\* if (normFactor > 0) correlation /= normFactor, on the signed square
\* (normSq is normFactor * normFactor)
Normalized(signedSq, normSq) ==
  IF Gt(normSq, Zero) THEN Div(signedSq, normSq) ELSE signedSq

CorrelationOf(sums) ==
  Normalized(Mul(sums.correlation, MathAbs(sums.correlation)),
             Mul(sums.norm1, sums.norm2))

\* Math.min(segment.length - lag, 4096)
CompareLength(segment, lag) ==
  IF Len(segment) - lag < MaxCompareLength THEN Len(segment) - lag
  ELSE MaxCompareLength

LagCorrelation(segment, lag) ==
  CorrelationOf(CorrelationSums(segment, lag, CompareLength(segment, lag)))

\* the lags that the loop of line 136 visits:
\*   for (lag = minLag; lag <= Math.min(maxLag, segment.length / 2); lag++)
LastLag(segment, maxLag) ==
  IF 2 * maxLag <= Len(segment) THEN maxLag ELSE Len(segment) \div 2

\* the correlation of each of these lags, in the order of the loop (entry k
\* is the one of lag minLag + k - 1); the correlation of a lag depends on
\* the segment and the lag only, so they are tabulated before the scan
LagCorrelations(segment, minLag, lastLag) ==
  SubSeq([k \in 1..(lastLag - minLag + 1) |->
            LagCorrelation(segment, minLag + k - 1)],
         1, lastLag - minLag + 1)

RECURSIVE LagLoop(_, _, _, _, _)
\* if (correlation > bestCorrelation) { bestCorrelation = correlation; bestLag = lag }
\* for each lag in turn
LagLoop(correlations, k, minLag, bestLag, bestCorrelation) ==
  IF k <= Len(correlations)
    THEN IF Gt(correlations[k], bestCorrelation)
           THEN LagLoop(correlations, k + 1, minLag, minLag + k - 1, correlations[k])
           ELSE LagLoop(correlations, k + 1, minLag, bestLag, bestCorrelation)
    ELSE bestLag

\* Math.floor(sampleRate / 1000) and Math.floor(sampleRate / 60)
MinLag(sampleRate) == sampleRate \div 1000
MaxLag(sampleRate) == sampleRate \div 60

\* the middle segment of at most 2 seconds
Segment(channelData, sampleRate) ==
  LET segmentLength == IF Len(channelData) < sampleRate * 2
                         THEN Len(channelData) ELSE sampleRate * 2
      start == (Len(channelData) - segmentLength) \div 2
  IN  Slice(channelData, start, start + segmentLength)

\* lines 133-157 on a segment
BestLagOf(segment, minLag, maxLag) ==
  LagLoop(LagCorrelations(segment, minLag, LastLag(segment, maxLag)),
          1, minLag, minLag, Num(-1, 1))

BestLag(audioBuffer) ==
  BestLagOf(Segment(audioBuffer.channelData, audioBuffer.sampleRate),
            MinLag(audioBuffer.sampleRate), MaxLag(audioBuffer.sampleRate))

\* mutant of DetectedFreq: the period instead of the frequency
DetectedFreqInverted(sampleRate, bestLag) == Div(Num(bestLag, 1), Num(sampleRate, 1))

\* sampleRate / bestLag
DetectedFreq(sampleRate, bestLag) == Div(Num(sampleRate, 1), Num(bestLag, 1))

\* Math.round(detectedFreq * 10) / 10
ReportedFrequency(detectedFreq) ==
  Div(MathRound(Mul(detectedFreq, Num(10, 1))), Num(10, 1))

\* mutant of Quality: an energy of exactly 0.4 counts as major
QualityAtLeast(rms) == IF Ge(rms.energy, Num(4, 10)) THEN "major" ELSE "minor"

\* rms.energy > 0.4 ? 'major' : 'minor'
Quality(rms) == IF Gt(rms.energy, Num(4, 10)) THEN "major" ELSE "minor"

\* lines 160-171
PitchResult(detectedFreq, found, rms, channelData) ==
  IF found.diverges THEN Diverges
  ELSE [diverges |-> FALSE,
        frequency |-> ReportedFrequency(detectedFreq),
        note |-> found.note,
        key |-> found.note \o " " \o Quality(rms),
        channelData |-> channelData]

PitchOfFreq(detectedFreq, audioBuffer) ==
  PitchResult(detectedFreq, frequencyToNote(detectedFreq),
              calculateEnergy(audioBuffer), audioBuffer.channelData)

detectPitch(audioBuffer) ==
  PitchOfFreq(DetectedFreq(audioBuffer.sampleRate, BestLag(audioBuffer)),
              audioBuffer)

(***************************************************************************)
(* classifyRhythm                                                          *)
(***************************************************************************)
RECURSIVE Sum(_, _, _)
\* arr.reduce((a, b) => a + b, 0)
Sum(arr, k, acc) == IF k < Len(arr) THEN Sum(arr, k + 1, Add(acc, At(arr, k))) ELSE acc

RECURSIVE SwingCountEveryPair(_, _, _)
\* mutant of SwingCount: every pair of neighbours is tested (i++ for i += 2)
SwingCountEveryPair(intervals, i, swingScore) ==
  IF i < Len(intervals) - 1
    THEN LET next == At(intervals, i + 1)
             divisor == IF next = Zero \/ IsNaN(next) THEN At(intervals, i) ELSE next
             ratio == Div(At(intervals, i), divisor)
         IN  IF Gt(ratio, Num(13, 10)) /\ Lt(ratio, Num(22, 10))
               THEN SwingCountEveryPair(intervals, i + 1, swingScore + 1)
               ELSE SwingCountEveryPair(intervals, i + 1, swingScore)
    ELSE swingScore

RECURSIVE SwingCount(_, _, _)
\* for (i = 0; i < intervals.length - 1; i += 2) { ...; if (...) swingScore++ }
SwingCount(intervals, i, swingScore) ==
  IF i < Len(intervals) - 1
    THEN LET next == At(intervals, i + 1)
             divisor == IF next = Zero \/ IsNaN(next) THEN At(intervals, i) ELSE next
             ratio == Div(At(intervals, i), divisor)
         IN  IF Gt(ratio, Num(13, 10)) /\ Lt(ratio, Num(22, 10))
               THEN SwingCount(intervals, i + 2, swingScore + 1)
               ELSE SwingCount(intervals, i + 2, swingScore)
    ELSE swingScore

\* Math.sqrt(variance) / mean > t, for t > 0
CvGt(variance, mean, t) ==
  IF Gt(mean, Zero) THEN RootGt(variance, Mul(t, mean))
  ELSE mean = Zero /\ Gt(variance, Zero)

\* mutant of classifyRhythm: the swing score is computed from 2 intervals on
classifyRhythmSwingFrom2(onsets) ==
  IF Len(onsets) < 3 THEN "straight"
  ELSE
    LET intervals == Intervals(onsets)
        n == Num(Len(intervals), 1)
        mean == Div(Sum(intervals, 0, Zero), n)
        squares == [k \in 1..Len(intervals) |->
                      Mul(Sub(intervals[k], mean), Sub(intervals[k], mean))]
        variance == Div(Sum(squares, 0, Zero), n)
        swingScore == IF Len(intervals) >= 2
                        THEN Div(Num(SwingCount(intervals, 0, 0), 1),
                                 Num(Len(intervals) \div 2, 1))
                        ELSE Zero
    IN  IF Gt(swingScore, Num(1, 2)) THEN "swing"
        ELSE IF CvGt(variance, mean, Num(35, 100)) THEN "syncopated"
        ELSE "straight"

classifyRhythm(onsets) ==
  IF Len(onsets) < 3 THEN "straight"
  ELSE
    LET intervals == Intervals(onsets)
        n == Num(Len(intervals), 1)
        mean == Div(Sum(intervals, 0, Zero), n)
        squares == [k \in 1..Len(intervals) |->
                      Mul(Sub(intervals[k], mean), Sub(intervals[k], mean))]
        variance == Div(Sum(squares, 0, Zero), n)
        swingScore == IF Len(intervals) >= 4
                        THEN Div(Num(SwingCount(intervals, 0, 0), 1),
                                 Num(Len(intervals) \div 2, 1))
                        ELSE Zero
    IN  IF Gt(swingScore, Num(1, 2)) THEN "swing"
        ELSE IF CvGt(variance, mean, Num(35, 100)) THEN "syncopated"
        ELSE "straight"

(***************************************************************************)
(* detectContour                                                           *)
(***************************************************************************)
numSegments == 6

\* for (i = 1; i < segment.length; i++) if (sign changes) zeroCrossings++
ZeroCrossings(segment) ==
  Cardinality({i \in 1..(Len(segment) - 1) :
                 \/ Ge(At(segment, i), Zero) /\ Lt(At(segment, i - 1), Zero)
                 \/ Lt(At(segment, i), Zero) /\ Ge(At(segment, i - 1), Zero)})

\* the pitch proxy of segment seg
SegmentPitch(channelData, sampleRate, seg) ==
  LET segmentLength == Len(channelData) \div numSegments
      start == seg * segmentLength
      end == IF start + segmentLength < Len(channelData)
               THEN start + segmentLength ELSE Len(channelData)
      segment == Slice(channelData, start, end)
  IN  Div(Num(ZeroCrossings(segment) * sampleRate, 1),
          Num(2 * Len(segment), 1))

SegmentPitches(channelData, sampleRate) ==
  [k \in 1..numSegments |-> SegmentPitch(channelData, sampleRate, k - 1)]

RECURSIVE DirectionChanges(_, _, _)
\* for (i = 2; i < segmentPitches.length; i++) ...
DirectionChanges(segmentPitches, i, directionChanges) ==
  IF i < Len(segmentPitches)
    THEN LET prev == Sub(At(segmentPitches, i - 1), At(segmentPitches, i - 2))
             curr == Sub(At(segmentPitches, i), At(segmentPitches, i - 1))
         IN  IF \/ Gt(prev, Zero) /\ Lt(curr, Zero)
                \/ Lt(prev, Zero) /\ Gt(curr, Zero)
               THEN DirectionChanges(segmentPitches, i + 1, directionChanges + 1)
               ELSE DirectionChanges(segmentPitches, i + 1, directionChanges)
    ELSE directionChanges

\* slope / avgPitch of the least-squares line through the segment pitches
NormalizedSlope(segmentPitches) ==
  LET n == Len(segmentPitches)
      xs == [k \in 1..n |-> Num(k - 1, 1)]
      sumX == Sum(xs, 0, Zero)
      sumY == Sum(segmentPitches, 0, Zero)
      sumXY == Sum([k \in 1..n |-> Mul(xs[k], segmentPitches[k])], 0, Zero)
      sumX2 == Sum([k \in 1..n |-> Mul(xs[k], xs[k])], 0, Zero)
      slope == Div(Sub(Mul(Num(n, 1), sumXY), Mul(sumX, sumY)),
                   Sub(Mul(Num(n, 1), sumX2), Mul(sumX, sumX)))
      avgPitch == Div(sumY, Num(n, 1))
  IN  IF Gt(avgPitch, Zero) THEN Div(slope, avgPitch) ELSE Zero

\* mutant of IsAscending: a flat trend counts as ascending
IsAscendingOrFlat(normalizedSlope) == Ge(normalizedSlope, Zero)

\* normalizedSlope > 0.02
IsAscending(normalizedSlope) == Gt(normalizedSlope, Num(2, 100))

\* normalizedSlope < -0.02
IsDescending(normalizedSlope) == Lt(normalizedSlope, Num(-2, 100))

\* mutant of ContourOf: the slope is tested before the direction changes
ContourOfSlopeFirst(directionChanges, normalizedSlope) ==
  IF IsAscending(normalizedSlope) THEN "ascending"
  ELSE IF IsDescending(normalizedSlope) THEN "descending"
  ELSE "oscillating"

\* lines 285-288
ContourOf(directionChanges, normalizedSlope) ==
  IF directionChanges >= 2 THEN "oscillating"
  ELSE IF IsAscending(normalizedSlope) THEN "ascending"
  ELSE IF IsDescending(normalizedSlope) THEN "descending"
  ELSE "oscillating"

ContourOfPitches(segmentPitches) ==
  ContourOf(DirectionChanges(segmentPitches, 2, 0), NormalizedSlope(segmentPitches))

detectContour(audioBuffer) ==
  ContourOfPitches(SegmentPitches(audioBuffer.channelData, audioBuffer.sampleRate))

(***************************************************************************)
(* analyzeAudioBuffer                                                      *)
(***************************************************************************)
\* lines 301-310
AnalysisResult(tempoResult, pitchResult, energyResult, rhythm, contour, channelData) ==
  IF pitchResult.diverges THEN Diverges
  ELSE [diverges |-> FALSE,
        tempo |-> tempoResult.bpm,
        key |-> pitchResult.key,
        note |-> pitchResult.note,
        frequency |-> pitchResult.frequency,
        energy |-> energyResult.energy,
        energyLevel |-> energyResult.level,
        rhythm |-> rhythm,
        contour |-> contour,
        channelData |-> channelData]

\* lines 296-299, on the buffer as detectTempo left it
AnalyzeAfterTempo(tempoResult, after) ==
  AnalysisResult(tempoResult, detectPitch(after), calculateEnergy(after),
                 classifyRhythm(tempoResult.onsets), detectContour(after),
                 after.channelData)

AnalyzeWithTempo(audioBuffer, tempoResult) ==
  IF tempoResult.diverges THEN Diverges
  ELSE AnalyzeAfterTempo(tempoResult,
         [audioBuffer EXCEPT !.channelData = tempoResult.channelData])

analyzeAudioBuffer(audioBuffer) ==
  AnalyzeWithTempo(audioBuffer, detectTempo(audioBuffer))

(***************************************************************************)
(* buildAnalysisText                                                       *)
(***************************************************************************)
DigitChars == <<"0", "1", "2", "3", "4", "5", "6", "7", "8", "9">>

RECURSIVE DecimalDigits(_)
\* the decimal digits of a natural number, most significant first
DecimalDigits(n) ==
  IF n < 10 THEN DigitChars[n + 1]
  ELSE DecimalDigits(n \div 10) \o DigitChars[(n % 10) + 1]

\* the string that a template literal substitutes for a number: "NaN",
\* "Infinity", "-Infinity", or the decimal digits of an integer (tempo is
\* 120 or a Math.round result, never a fraction)
NumberToString(x) ==
  IF IsNaN(x) THEN "NaN"
  ELSE IF x[2] = 0 THEN (IF x[1] > 0 THEN "Infinity" ELSE "-Infinity")
  ELSE IF x[1] < 0 THEN "-" \o DecimalDigits((-x[1]) \div x[2])
  ELSE DecimalDigits(x[1] \div x[2])

\* mutant of buildAnalysisText: rhythm and contour change places
buildAnalysisTextSwapped(results) ==
  NumberToString(results.tempo) \o " BPM, " \o results.key \o ", "
    \o results.energyLevel \o " energy, " \o results.contour \o " rhythm, "
    \o results.rhythm \o " melody"

buildAnalysisText(results) ==
  NumberToString(results.tempo) \o " BPM, " \o results.key \o ", "
    \o results.energyLevel \o " energy, " \o results.rhythm \o " rhythm, "
    \o results.contour \o " melody"

(***************************************************************************)
(* Input buffers                                                           *)
(***************************************************************************)
\* 50 Hz: hop of 0 samples; 100 Hz: hop of 1 sample, lags from 0;
\* 1600 Hz: hop of 16 samples, lags 1..26
SampleRates == {50, 100, 1600}

MaxSilentLen == 40
MaxSignLen == 7
MaxLevelLen == 4
MaxPulses == 3
MaxPeriod == 8

SeqsUpTo(S, lo, hi) == UNION {[1..n -> S] : n \in lo..hi}

\* all-zero buffers, the empty buffer included
SilentBuffers == {[k \in 1..n |-> Zero] : n \in 0..MaxSilentLen}

\* full-scale samples of either sign
SignBuffers == SeqsUpTo({Num(-1, 1), Num(1, 1)}, 1, MaxSignLen)

\* non-negative samples of four loudness levels
LevelBuffers == SeqsUpTo({Zero, Num(1, 16), Num(1, 8), Num(1, 4)}, 1, MaxLevelLen)

\* square waves of period 2..MaxPeriod samples, 2 or 3 periods long
ToneBuffers ==
  {[k \in 1..(period * cycles) |->
      IF 2 * ((k - 1) % period) < period THEN One ELSE Neg(One)] :
     <<period, cycles>> \in (2..MaxPeriod) \X {2, 3}}

PulseAmplitudes == {Num(1, 2), One}
PulseGaps(hopSize) == IF hopSize = 1 THEN {2, 11, 50, 101} ELSE {11}

RECURSIVE PulseHops(_, _)
\* one entry per hop: 8 quiet hops, a pulse, then for each gap g a pulse
\* g hops after the previous one, and 2 quiet hops at the end
PulseHops(amplitudes, gaps) ==
  IF gaps = <<>>
    THEN [k \in 1..windowSize |-> Zero] \o <<Head(amplitudes)>> \o <<Zero, Zero>>
    ELSE LET rest == PulseHops(Tail(amplitudes), Tail(gaps))
         IN  [k \in 1..windowSize |-> Zero] \o <<Head(amplitudes)>>
               \o [k \in 1..(Head(gaps) - 1) |-> Zero]
               \o SubSeq(rest, windowSize + 1, Len(rest))

\* each hop entry becomes one sample followed by hopSize - 1 zeros
Expand(hops, hopSize) ==
  [k \in 1..(Len(hops) * hopSize) |->
     IF (k - 1) % hopSize = 0 THEN hops[(k - 1) \div hopSize + 1] ELSE Zero]

PulseBuffers(hopSize) ==
  {Expand(PulseHops(amplitudes, gaps), hopSize) :
     <<amplitudes, gaps>> \in
       UNION {[1..n -> PulseAmplitudes] \X [1..(n - 1) -> PulseGaps(hopSize)] :
                n \in 1..MaxPulses}}

\* click trains: 4 seconds of silence with a one-sample click every 500 ms,
\* the first one offset hops after the start
ClickOffsets == {0, 8, 9, 30}
ClickSampleRates == {100, 400}

ClickHops(offset, amplitude, sampleRate) ==
  [k \in 1..((4 * sampleRate) \div HopSize(sampleRate)) |->
     IF k - 1 >= offset /\ (k - 1 - offset) % (sampleRate \div (2 * HopSize(sampleRate))) = 0
       THEN amplitude ELSE Zero]

\* pulses closer than the minimum gap: <<g1, g2>> are the hops between the
\* first and the second, and the second and the third of three pulses
CloseGaps == {<<6, 6>>, <<6, 3>>, <<9, 9>>, <<3, 3>>, <<3, 9>>}

CloseBuffers ==
  {PulseHops(amplitudes, gaps) :
     <<amplitudes, gaps>> \in [1..3 -> PulseAmplitudes] \X CloseGaps}

ClickBuffers(sampleRate) ==
  {Expand(ClickHops(offset, amplitude, sampleRate), HopSize(sampleRate)) :
     <<offset, amplitude>> \in ClickOffsets \X PulseAmplitudes}

\* A sine of RMS amplitude 1/2 (peak Math.SQRT1_2) of the given frequency,
\* sampled length times at sampleRate, each sample rounded to an integer:
\* sample i is Math.round(Math.SQRT1_2 * Math.sin(2 * Math.PI * freq * i / sampleRate)).
\* With m = (i * freq) % sampleRate, the sine is >= Math.SQRT1_2 (the sample
\* rounds to 1) exactly for 1/8 <= m / sampleRate <= 3/8, and it is
\* < -Math.SQRT1_2 (the sample rounds to -1) for 5/8 < m / sampleRate < 7/8.
\* The rounded wave has the period and the zero crossings of the sine.
RoundedSine(sampleRate, freq, length) ==
  [k \in 1..length |->
     IF /\ 8 * (((k - 1) * freq) % sampleRate) >= sampleRate
        /\ 8 * (((k - 1) * freq) % sampleRate) <= 3 * sampleRate
       THEN One
     ELSE IF /\ 8 * (((k - 1) * freq) % sampleRate) > 5 * sampleRate
             /\ 8 * (((k - 1) * freq) % sampleRate) < 7 * sampleRate
       THEN Neg(One)
     ELSE Zero]

\* <<sampleRate, freq, length>>: 2 seconds of 440 Hz at 44100 Hz, and short
\* tones at low sample rates
SineCases ==
  {<<44100, 440, 88200>>}
    \cup ({1000, 1600} \X {100, 200, 250, 400} \X {40, 80, 160, 320, 400})

SineInputs ==
  {[channelData |-> RoundedSine(c[1], c[2], c[3]), sampleRate |-> c[1]] :
     c \in SineCases}

\* records handed to buildAnalysisText directly
TextRecords ==
  {[tempo |-> Num(100, 1), key |-> "C major", energyLevel |-> "high",
    rhythm |-> "swing", contour |-> "ascending"],
   [tempo |-> Num(60, 1), key |-> "A# minor", energyLevel |-> "low",
    rhythm |-> "straight", contour |-> "oscillating"]}

Inputs ==
  {[channelData |-> channelData, sampleRate |-> sampleRate] :
     <<channelData, sampleRate>> \in
       (SilentBuffers \cup SignBuffers \cup LevelBuffers \cup ToneBuffers)
         \X SampleRates}
  \cup UNION {{[channelData |-> channelData, sampleRate |-> sampleRate] :
                 channelData \in PulseBuffers(HopSize(sampleRate))} :
               sampleRate \in {r \in SampleRates : HopSize(r) >= 1}}
  \cup UNION {{[channelData |-> channelData, sampleRate |-> sampleRate] :
                 channelData \in ClickBuffers(sampleRate)} :
               sampleRate \in ClickSampleRates}
  \cup {[channelData |-> channelData, sampleRate |-> 100] :
          channelData \in CloseBuffers}

(***************************************************************************)
(* The caller: one buffer, and calls of the exported functions on it       *)
(***************************************************************************)
\* recorder is the AudioRecorder component with its browser objects; the
\* calls below are made on a buffer directly and leave it alone
\* freq is the argument of a direct call of frequencyToNote
\* onsetList is the argument of a direct call of classifyRhythm: <<>> when
\* it is missing, else <<the array>>
\* retry is a call of retryWithBackoff and the attempts it has made
\* app is the App component and the call of generateCompleteSong it has made
\* flow is the QuestionFlow component, its pending auto-advance timers and the calls of onComplete
VARIABLES audioBuffer, call, status, ret, recorder, freq, onsetList, retry, app, flow

vars == <<audioBuffer, call, status, ret, recorder, freq, onsetList, retry, app, flow>>

\* no call of retryWithBackoff has been made
NotCalled ==
  [pc |-> "idle", maxRetries |-> 0, attempt |-> 0, calls |-> 0,
   delays |-> <<>>, errors |-> <<>>, lastError |-> "undefined", value |-> ""]

\* App as mounted, with the generateCompleteSong of the given file: no
\* recording, genre or theme yet, and no call made
AppMounted(version) ==
  [recordingData |-> "null", selectedGenre |-> "null", theme |-> "",
   generationStep |-> "IDLE", generatedSong |-> "null", generationError |-> "null",
   version |-> version, pc |-> "none", progress |-> <<>>,
   lyrics |-> "none", music |-> "none", prompt |-> "none", artwork |-> "none",
   errors |-> <<>>, artworkUrl |-> "null"]

\* QuestionFlow as mounted and opened: the first question, nothing answered,
\* no timer set; timers holds the currentStep each pending handleNext closed over
FlowMounted ==
  [currentStep |-> 0, direction |-> 1,
   answers |-> [genre |-> "null", theme |-> "", recording |-> "null"],
   isOpen |-> TRUE, timers |-> <<>>, completedFrom |-> {}, crashed |-> FALSE]

\* the component as mounted: useState and useRef initial values, no
\* MediaRecorder, no interval, the clock at its origin
Mounted ==
  [status |-> "idle", elapsedTime |-> 0, errorMessage |-> "",
   analysisResults |-> <<>>, analysisText |-> "",
   mediaRecorderRef |-> 0, streamRef |-> 0, timerRef |-> 0,
   startTimeRef |-> <<>>,
   now |-> 0, pending |-> 0, recorders |-> <<>>, timers |-> {},
   stopping |-> {}, decoding |-> {}, handed |-> {}]

Init ==
  /\ audioBuffer \in Inputs
  /\ call = "none"
  /\ status = "idle"
  /\ ret = [diverges |-> FALSE]
  /\ recorder = Mounted
  /\ freq = Zero
  /\ onsetList = <<>>
  /\ retry = NotCalled
  /\ app = AppMounted("apiService.js")
  /\ flow = FlowMounted

\* A call that does not return leaves the (single) thread in it forever.
\* Otherwise its result is kept, and the caller's array is as the call
\* left it (result.channelData for the calls that are handed the buffer).
Returns(name, result, channelData) ==
  /\ call' = name
  /\ status' = IF result.diverges THEN "hung" ELSE "returned"
  /\ ret' = result
  /\ audioBuffer' = IF result.diverges THEN audioBuffer
                     ELSE [audioBuffer EXCEPT !.channelData = channelData]
  /\ UNCHANGED <<recorder, freq, onsetList, retry, app, flow>>

ReturnsWithBuffer(name, result) ==
  Returns(name, result, IF result.diverges THEN <<>> ELSE result.channelData)

CallDetectTempo ==
  /\ status = "idle"
  /\ ReturnsWithBuffer("detectTempo", detectTempo(audioBuffer))

CallDetectPitch ==
  /\ status = "idle"
  /\ ReturnsWithBuffer("detectPitch", detectPitch(audioBuffer))

CallCalculateEnergy ==
  /\ status = "idle"
  /\ Returns("calculateEnergy",
             [diverges |-> FALSE] @@ calculateEnergy(audioBuffer),
             audioBuffer.channelData)

\* classifyRhythm is given the onsets of a detectTempo call
CallClassifyRhythm ==
  /\ status = "returned" /\ call = "detectTempo"
  /\ Returns("classifyRhythm",
             [diverges |-> FALSE, rhythm |-> classifyRhythm(ret.onsets)],
             audioBuffer.channelData)

CallDetectContour ==
  /\ status = "idle"
  /\ Returns("detectContour",
             [diverges |-> FALSE, contour |-> detectContour(audioBuffer)],
             audioBuffer.channelData)

CallAnalyzeAudioBuffer ==
  /\ status = "idle"
  /\ ReturnsWithBuffer("analyzeAudioBuffer", analyzeAudioBuffer(audioBuffer))

\* buildAnalysisText is given the record of an analyzeAudioBuffer call (as
\* handleRecordingComplete does) or a record written by the caller
CallBuildAnalysisText ==
  \E results \in IF status = "returned" /\ call = "analyzeAudioBuffer" THEN {ret}
                  ELSE IF status = "idle" THEN TextRecords ELSE {} :
    Returns("buildAnalysisText",
            [diverges |-> FALSE, results |-> results,
             text |-> buildAnalysisText(results)],
            audioBuffer.channelData)

Next ==
  \/ CallDetectTempo
  \/ CallDetectPitch
  \/ CallCalculateEnergy
  \/ CallClassifyRhythm
  \/ CallDetectContour
  \/ CallAnalyzeAudioBuffer
  \/ CallBuildAnalysisText

Spec == Init /\ [][Next]_vars

\* The pitch detector and the energy classifier on sampled sines
SineInit ==
  /\ audioBuffer \in SineInputs
  /\ call = "none"
  /\ status = "idle"
  /\ ret = [diverges |-> FALSE]
  /\ recorder = Mounted
  /\ freq = Zero
  /\ onsetList = <<>>
  /\ retry = NotCalled
  /\ app = AppMounted("apiService.js")
  /\ flow = FlowMounted

SineNext ==
  \/ CallDetectPitch
  \/ CallCalculateEnergy

SineSpec == SineInit /\ [][SineNext]_vars

\* frequencyToNote called directly: the table frequencies, the midpoints of
\* neighbours (ties), values at the ends of the reference octave and a few
\* others, each 0 to MaxOctaves octaves up or down
MaxOctaves == 2

BaseFrequencies ==
  {At(NOTE_FREQUENCIES, i).freq : i \in 0..(Len(NOTE_FREQUENCIES) - 1)}
    \cup {Div(Add(At(NOTE_FREQUENCIES, i).freq, At(NOTE_FREQUENCIES, i + 1).freq),
              Num(2, 1)) : i \in 0..(Len(NOTE_FREQUENCIES) - 2)}
    \cup {Num(52325, 100), Num(523255, 1000), Num(52326, 100), Num(52320, 100),
          Num(300, 1), Num(450, 1), Num(510, 1)}

Frequencies ==
  {Mul(f, Num(2 ^ k, 1)) : f \in BaseFrequencies, k \in 0..MaxOctaves}
    \cup {Div(f, Num(2 ^ k, 1)) : f \in BaseFrequencies, k \in 0..MaxOctaves}

NoteInit ==
  /\ audioBuffer = [channelData |-> <<>>, sampleRate |-> 1600]
  /\ call = "none"
  /\ status = "idle"
  /\ ret = [diverges |-> FALSE]
  /\ recorder = Mounted
  /\ freq \in Frequencies
  /\ onsetList = <<>>
  /\ retry = NotCalled
  /\ app = AppMounted("apiService.js")
  /\ flow = FlowMounted

NoteReturns(result, f) ==
  /\ call' = "frequencyToNote"
  /\ status' = IF result.diverges THEN "hung" ELSE "returned"
  /\ ret' = result
  /\ freq' = f
  /\ UNCHANGED <<audioBuffer, recorder, onsetList, retry, app, flow>>

CallFrequencyToNote ==
  /\ status = "idle"
  /\ NoteReturns(frequencyToNote(freq), freq)

\* a second call, on the frequency one octave above; the note of the first
\* call is kept in field below
CallFrequencyToNoteOctave ==
  /\ status = "returned" /\ call = "frequencyToNote"
  /\ "below" \notin DOMAIN ret
  /\ NoteReturns(frequencyToNote(Mul(freq, Num(2, 1))) @@ [below |-> ret.note],
                 Mul(freq, Num(2, 1)))

NoteNext ==
  \/ CallFrequencyToNote
  \/ CallFrequencyToNoteOctave

NoteSpec == NoteInit /\ [][NoteNext]_vars

\* classifyRhythm called directly: no array, or onsets from 80 ms on with up
\* to MaxIntervals intervals (milliseconds) of these lengths
MaxIntervals == 5

IntervalLengths == {0, 100, 130, 220, 300}

RECURSIVE OnsetsFrom(_, _)
OnsetsFrom(first, lengths) ==
  IF lengths = <<>> THEN <<Num(first, 1)>>
  ELSE <<Num(first, 1)>> \o OnsetsFrom(first + Head(lengths), Tail(lengths))

OnsetLists ==
  {<<>>, <<<<>>>>}
    \cup {<<OnsetsFrom(80, lengths)>> :
            lengths \in SeqsUpTo(IntervalLengths, 0, MaxIntervals)}

RhythmInit ==
  /\ audioBuffer = [channelData |-> <<>>, sampleRate |-> 1600]
  /\ call = "none"
  /\ status = "idle"
  /\ ret = [diverges |-> FALSE]
  /\ recorder = Mounted
  /\ freq = Zero
  /\ onsetList \in OnsetLists
  /\ retry = NotCalled
  /\ app = AppMounted("apiService.js")
  /\ flow = FlowMounted

\* !onsets of line 202 covers the missing array
CallClassifyRhythmOn ==
  /\ status = "idle"
  /\ call' = "classifyRhythm"
  /\ status' = "returned"
  /\ ret' = [diverges |-> FALSE,
             rhythm |-> IF onsetList = <<>> THEN "straight"
                        ELSE classifyRhythm(onsetList[1])]
  /\ UNCHANGED <<audioBuffer, recorder, freq, onsetList, retry, app, flow>>

RhythmNext == CallClassifyRhythmOn

RhythmSpec == RhythmInit /\ [][RhythmNext]_vars

\* detectContour on buffers of 6 segments of MaxCrossings + 1 full-scale
\* samples, each segment with 0..MaxCrossings sign changes of its own, with
\* or without 3 samples more at the end
MaxCrossings == 3

\* starts at 1 and changes sign at each of the first crossings steps
CrossingSegment(crossings) ==
  [k \in 1..(MaxCrossings + 1) |->
     IF k - 1 <= crossings /\ (k - 1) % 2 = 1 THEN Neg(One)
     ELSE IF k - 1 > crossings /\ crossings % 2 = 1 THEN Neg(One)
     ELSE One]

RECURSIVE Concat(_)
Concat(segments) ==
  IF segments = <<>> THEN <<>> ELSE Head(segments) \o Concat(Tail(segments))

ContourBuffers ==
  {Concat([k \in 1..numSegments |-> CrossingSegment(crossings[k])]) \o extra :
     crossings \in [1..numSegments -> 0..MaxCrossings],
     extra \in {<<>>, <<Neg(One), One, Neg(One)>>}}

ContourInit ==
  /\ audioBuffer \in {[channelData |-> channelData, sampleRate |-> 1600] :
                         channelData \in ContourBuffers}
  /\ call = "none"
  /\ status = "idle"
  /\ ret = [diverges |-> FALSE]
  /\ recorder = Mounted
  /\ freq = Zero
  /\ onsetList = <<>>
  /\ retry = NotCalled
  /\ app = AppMounted("apiService.js")
  /\ flow = FlowMounted

ContourNext == CallDetectContour

ContourSpec == ContourInit /\ [][ContourNext]_vars

(***************************************************************************)
(* retryWithBackoff: pc is where the call stands (in fn, in the timeout,   *)
(* returned or thrown); calls counts the calls of fn, delays and errors    *)
(* are the timeouts set and the errors caught so far                       *)
(***************************************************************************)
\* maxRetries is 0..MaxRetries (2 when the argument is left out)
MaxRetries == 3

RetryErrors == {"TypeError", "HTTP 500"}
RetryValues == {"lyrics", "audio"}

\* mutant of Delay: the exponent is one too high
DelayDoubled(attempt) == 2 ^ (attempt + 1) * 1000

\* Math.pow(2, attempt) * 1000
Delay(attempt) == 2 ^ attempt * 1000

RetryStep(r) ==
  /\ retry' = r
  /\ UNCHANGED <<audioBuffer, call, status, ret, recorder, freq, onsetList, app, flow>>

\* the call, up to the first await fn() (0 <= maxRetries)
CallRetryWithBackoff ==
  /\ retry.pc = "idle"
  /\ \E maxRetries \in 0..MaxRetries :
       RetryStep([retry EXCEPT !.maxRetries = maxRetries, !.attempt = 0,
                               !.calls = 1, !.pc = "fn"])

\* fn() resolves: return await fn()
FnResolves ==
  /\ retry.pc = "fn"
  /\ \E value \in RetryValues :
       RetryStep([retry EXCEPT !.value = value, !.pc = "returned"])

\* fn() throws or rejects: the catch block; after the last attempt the loop
\* ends and lastError is thrown
FnRejects ==
  /\ retry.pc = "fn"
  /\ \E err \in RetryErrors :
       LET caught == [retry EXCEPT !.lastError = err, !.errors = Append(@, err)]
       IN  IF retry.attempt < retry.maxRetries
             THEN RetryStep([caught EXCEPT !.delays = Append(@, Delay(retry.attempt)),
                                           !.pc = "timeout"])
             ELSE RetryStep([caught EXCEPT !.attempt = @ + 1, !.pc = "thrown"])

\* the timeout fires: attempt++, and the next await fn()
TimeoutFires ==
  /\ retry.pc = "timeout"
  /\ RetryStep([retry EXCEPT !.attempt = @ + 1, !.calls = @ + 1, !.pc = "fn"])

RetryInit ==
  /\ audioBuffer = [channelData |-> <<>>, sampleRate |-> 1600]
  /\ call = "none"
  /\ status = "idle"
  /\ ret = [diverges |-> FALSE]
  /\ recorder = Mounted
  /\ freq = Zero
  /\ onsetList = <<>>
  /\ retry = NotCalled
  /\ app = AppMounted("apiService.js")
  /\ flow = FlowMounted

RetryNext ==
  \/ CallRetryWithBackoff
  \/ FnResolves
  \/ FnRejects
  \/ TimeoutFires

RetrySpec == RetryInit /\ [][RetryNext]_vars

(***************************************************************************)
(* App and generateCompleteSong: pc is the await the call stands at,       *)
(* progress the steps given to onProgress, and lyrics, music, prompt and   *)
(* artwork the outcomes of the four generators                             *)
(***************************************************************************)
\* the two generateCompleteSong of the repository: with Canvas artwork
\* (apiService.js) and with an image prompt and remote artwork (part_006)
Versions == {"apiService.js", "part_006"}

Genres == {"Lo-fi Hip Hop", "Sad Jazz"}
Themes == {"", "  ", "rain"}

\* theme.trim(), on the themes above
Trim(theme) == IF theme = "  " THEN "" ELSE theme

Recordings == {"hum", "beatbox"}

PromptFailed == "Image prompt generation failed"
ArtworkFailed == "Artwork generation failed"

canGenerate(a) ==
  a.recordingData # "null" /\ a.selectedGenre # "null" /\ Trim(a.theme) # ""

isGenerating(a) == a.generationStep \notin {"IDLE", "COMPLETE", "ERROR"}

AppStep(a) ==
  /\ app' = a
  /\ UNCHANGED <<audioBuffer, call, status, ret, recorder, freq, onsetList, retry, flow>>

\* onProgress(step), which is (step) => setGenerationStep(step)
onProgress(a, step) ==
  [a EXCEPT !.progress = Append(@, step), !.generationStep = step]

\* generateCompleteSong throws, and the catch block of handleGenerate
Throws(a, message) ==
  [a EXCEPT !.pc = "thrown", !.generationStep = "ERROR",
            !.generationError = message]

\* onProgress('COMPLETE'), the return, and setGeneratedSong(result)
Completes(a) ==
  [onProgress(a, "COMPLETE") EXCEPT
     !.pc = "returned",
     !.generatedSong = [lyrics |-> "lyrics", audioBlob |-> "audio",
                        artworkUrl |-> a.artworkUrl, errors |-> a.errors]]

\* generateArtwork has returned url, which is null when it failed
ArtworkReturns(a, url) ==
  Completes(IF url = "null"
              THEN [a EXCEPT !.artwork = "null", !.errors = Append(@, ArtworkFailed)]
              ELSE [a EXCEPT !.artwork = "url", !.artworkUrl = url])

\* mutant of AllSettled: a rejected image prompt throws as a rejected music does
AllSettledOrThrow(a) ==
  IF a.music = "rejected" \/ a.prompt = "rejected"
    THEN Throws(a, "Failed to generate music")
    ELSE LET step3 == onProgress(a, "GENERATING_ARTWORK")
         IN  IF a.prompt = "fulfilled"
               THEN [step3 EXCEPT !.pc = "artwork", !.artwork = "pending"]
               ELSE Completes(step3)

\* part_006 after Promise.allSettled: a rejected music throws; a rejected
\* prompt is an entry of errors; the artwork is awaited if (imagePrompt)
AllSettled(a) ==
  IF a.music = "rejected"
    THEN Throws(a, "Failed to generate music")
    ELSE LET noted == IF a.prompt = "rejected"
                        THEN [a EXCEPT !.errors = Append(@, PromptFailed)]
                        ELSE a
             step3 == onProgress(noted, "GENERATING_ARTWORK")
         IN  IF a.prompt = "fulfilled"
               THEN [step3 EXCEPT !.pc = "artwork", !.artwork = "pending"]
               ELSE Completes(step3)

\* <AudioRecorder onRecordingComplete={handleRecordingComplete} />
handleRecordingComplete ==
  \E data \in Recordings : AppStep([app EXCEPT !.recordingData = data])

\* <GenreSelector onChange={setSelectedGenre} disabled={isGenerating} />
SelectGenre ==
  /\ ~isGenerating(app)
  /\ \E genre \in Genres : AppStep([app EXCEPT !.selectedGenre = genre])

\* <ThemeInput onChange={setTheme} disabled={isGenerating} />
TypeTheme ==
  /\ ~isGenerating(app)
  /\ \E theme \in Themes : AppStep([app EXCEPT !.theme = theme])

\* GENERATE SONG (shown at IDLE, disabled unless canGenerate): handleGenerate
\* up to the await of generateLyrics
handleGenerate ==
  /\ app.generationStep = "IDLE"
  /\ canGenerate(app) /\ ~isGenerating(app)
  /\ AppStep(onProgress([app EXCEPT !.generationError = "null",
                                    !.generatedSong = "null",
                                    !.errors = <<>>, !.artworkUrl = "null",
                                    !.progress = <<>>,
                                    !.music = "none", !.prompt = "none",
                                    !.artwork = "none",
                                    !.lyrics = "pending", !.pc = "lyrics"],
                        "GENERATING_LYRICS"))

\* generateLyrics settles; on success step 2 starts its generators
LyricsSettle ==
  /\ app.pc = "lyrics"
  /\ \/ AppStep(Throws([app EXCEPT !.lyrics = "rejected"],
                       "Failed to generate lyrics"))
     \/ AppStep([onProgress(app, "GENERATING_MUSIC") EXCEPT
                   !.lyrics = "fulfilled", !.pc = "music", !.music = "pending",
                   !.prompt = IF app.version = "part_006" THEN "pending" ELSE "none"])

\* generateMusic settles; in apiService.js step 3 follows at once, with
\* generateArtwork returning a data URL or null
MusicSettles ==
  /\ app.pc = "music" /\ app.music = "pending"
  /\ \E outcome \in {"fulfilled", "rejected"} :
       LET a == [app EXCEPT !.music = outcome]
       IN  IF app.version = "apiService.js"
             THEN IF outcome = "rejected"
                    THEN AppStep(Throws(a, "Failed to generate music"))
                    ELSE \E url \in {"null", "data:image/png"} :
                           AppStep(ArtworkReturns(onProgress(a, "GENERATING_ARTWORK"), url))
             ELSE IF a.prompt = "pending"
                    THEN AppStep(a)
                    ELSE AppStep(AllSettled(a))

\* generateImagePrompt settles (part_006); its text may be empty
PromptSettles ==
  /\ app.pc = "music" /\ app.prompt = "pending"
  /\ \E outcome \in {"fulfilled", "empty", "rejected"} :
       LET a == [app EXCEPT !.prompt = outcome]
       IN  IF a.music = "pending"
             THEN AppStep(a)
             ELSE AppStep(AllSettled(a))

\* await generateArtwork(imagePrompt) (part_006): an object URL or null
ArtworkSettles ==
  /\ app.pc = "artwork"
  /\ \E url \in {"null", "blob:artwork"} : AppStep(ArtworkReturns(app, url))

\* TRY AGAIN (shown at ERROR)
handleRetry ==
  /\ app.generationStep = "ERROR"
  /\ AppStep([app EXCEPT !.generationStep = "IDLE", !.generationError = "null"])

AppInit ==
  /\ audioBuffer = [channelData |-> <<>>, sampleRate |-> 1600]
  /\ call = "none"
  /\ status = "idle"
  /\ ret = [diverges |-> FALSE]
  /\ recorder = Mounted
  /\ freq = Zero
  /\ onsetList = <<>>
  /\ retry = NotCalled
  /\ app \in {AppMounted(version) : version \in Versions}
  /\ flow = FlowMounted

AppNext ==
  \/ handleRecordingComplete
  \/ SelectGenre
  \/ TypeTheme
  \/ handleGenerate
  \/ LyricsSettle
  \/ MusicSettles
  \/ PromptSettles
  \/ ArtworkSettles
  \/ handleRetry

AppSpec == AppInit /\ [][AppNext]_vars

(***************************************************************************)
(* QuestionFlow: the three questions, the handlers of its buttons, and the *)
(* timers that handleGenreSelect sets, each running the handleNext of the  *)
(* render it was set in                                                    *)
(***************************************************************************)
questions ==
  << [id |-> "record", type |-> "recorder"],
     [id |-> "genre", type |-> "genre"],
     [id |-> "theme", type |-> "text"] >>

\* at most MaxTimers auto-advance timers are pending at a time
MaxTimers == 2

GenreIds == {"lofi", "edm", "jazz"}
FlowThemes == {"", "pi in the sky"}

\* what questions[currentStep] is outside the array
Undefined == [id |-> "undefined", type |-> "undefined"]

\* questions[currentStep]
currentQuestion(f) ==
  IF f.currentStep + 1 \in DOMAIN questions
    THEN questions[f.currentStep + 1]
    ELSE Undefined

\* the window is on the screen with its buttons
Shown(f) == f.isOpen /\ ~f.crashed

\* the state after a render: with the window open, currentQuestion.id of an
\* undefined question throws and React unmounts the tree
Rendered(f) ==
  IF f.isOpen /\ currentQuestion(f) = Undefined
    THEN [f EXCEPT !.crashed = TRUE]
    ELSE f

FlowStep(f) ==
  /\ flow' = Rendered(f)
  /\ UNCHANGED <<audioBuffer, call, status, ret, recorder, freq, onsetList, retry, app>>

\* handleNext of the render with the given currentStep: the guard reads the
\* step of that render, prev => prev + 1 the present one; onComplete(answers)
\* closes the flow (handleQuestionFlowComplete)
handleNext(f, currentStep) ==
  IF currentStep < Len(questions) - 1
    THEN [f EXCEPT !.direction = 1, !.currentStep = @ + 1]
    ELSE [f EXCEPT !.completedFrom = @ \cup {f.currentStep}, !.isOpen = FALSE]

\* NEXT or FINISH: shown on the recorder question once recorded, on the text
\* question enabled by canProceed(), never on the genre question
PressNext ==
  /\ Shown(flow)
  /\ \/ currentQuestion(flow).type = "recorder" /\ flow.answers.recording # "null"
     \/ currentQuestion(flow).type = "text" /\ flow.answers.theme # ""
  /\ FlowStep(handleNext(flow, flow.currentStep))

\* BACK, shown when currentStep > 0: handleBack
PressBack ==
  /\ Shown(flow)
  /\ flow.currentStep > 0
  /\ FlowStep([flow EXCEPT !.direction = -1, !.currentStep = @ - 1])

\* a genre option: handleGenreSelect sets the answer and a timer of 400 ms
handleGenreSelect ==
  /\ Shown(flow)
  /\ currentQuestion(flow).type = "genre"
  /\ Len(flow.timers) < MaxTimers
  /\ \E genreId \in GenreIds :
       FlowStep([flow EXCEPT !.answers.genre = genreId,
                             !.timers = Append(@, flow.currentStep)])

\* the oldest timer fires: the handleNext of its render
TimerFires ==
  /\ ~flow.crashed
  /\ flow.timers # <<>>
  /\ FlowStep(handleNext([flow EXCEPT !.timers = Tail(@)], Head(flow.timers)))

handleThemeChange ==
  /\ Shown(flow)
  /\ currentQuestion(flow).type = "text"
  /\ \E value \in FlowThemes : FlowStep([flow EXCEPT !.answers.theme = value])

\* onRecordingComplete of the AudioRecorder of the first question
FlowRecordingComplete ==
  /\ Shown(flow)
  /\ currentQuestion(flow).type = "recorder"
  /\ FlowStep([flow EXCEPT !.answers.recording = "recorded"])

\* the close button or a click on the overlay: onClose
CloseFlow ==
  /\ Shown(flow)
  /\ FlowStep([flow EXCEPT !.isOpen = FALSE])

\* GET STARTED of the landing page, there until a flow has completed
OpenFlow ==
  /\ ~flow.isOpen /\ ~flow.crashed
  /\ flow.completedFrom = {}
  /\ FlowStep([flow EXCEPT !.isOpen = TRUE])

FlowInit ==
  /\ audioBuffer = [channelData |-> <<>>, sampleRate |-> 1600]
  /\ call = "none"
  /\ status = "idle"
  /\ ret = [diverges |-> FALSE]
  /\ recorder = Mounted
  /\ freq = Zero
  /\ onsetList = <<>>
  /\ retry = NotCalled
  /\ app = AppMounted("apiService.js")
  /\ flow = FlowMounted

FlowNext ==
  \/ PressNext
  \/ PressBack
  \/ handleGenreSelect
  \/ TimerFires
  \/ handleThemeChange
  \/ FlowRecordingComplete
  \/ CloseFlow
  \/ OpenFlow

FlowSpec == FlowInit /\ [][FlowNext]_vars

\* The envelope of detectTempo on quiet buffers: samples below the floor of
\* line 71 (1/20000 < 0.0001), at the floor's order, and loud ones, one
\* sample per hop
MaxQuietLen == 5

QuietBuffers == SeqsUpTo({Zero, Num(1, 20000), Num(1, 4)}, 0, MaxQuietLen)

EnvelopeInit ==
  /\ audioBuffer \in {[channelData |-> channelData, sampleRate |-> 100] :
                         channelData \in QuietBuffers}
  /\ call = "none"
  /\ status = "idle"
  /\ ret = [diverges |-> FALSE]
  /\ recorder = Mounted
  /\ freq = Zero
  /\ onsetList = <<>>
  /\ retry = NotCalled
  /\ app = AppMounted("apiService.js")
  /\ flow = FlowMounted

EnvelopeNext == CallDetectTempo

EnvelopeSpec == EnvelopeInit /\ [][EnvelopeNext]_vars

(***************************************************************************)
(* AudioRecorder: the component's state and refs, the MediaRecorders and   *)
(* intervals it created, and the clock (Date.now(), in milliseconds)       *)
(***************************************************************************)
MAX_DURATION == 8
MIN_DURATION == 1

\* the period of the setInterval timer, in milliseconds
TimerPeriod == 100

\* the clock stops at MaxTime; at most MaxRecorders calls of startRecording
MaxTime == 8300
MaxRecorders == 2

\* the user presses STOP at these elapsed times (milliseconds), and
\* getUserMedia settles at once or this long after a recording has started
StopPresses == {0, 500, 1000, 3000, 8200}
StartLatencies == {0, 200, 1200}

\* err.name of a rejected getUserMedia, and the message shown for it
ErrorNames == {"NotAllowedError", "NotFoundError", "AbortError"}

RecordingErrorMessage(name) ==
  IF name = "NotAllowedError"
    THEN "Microphone access denied. Please allow microphone access and try again."
  ELSE IF name = "NotFoundError"
    THEN "No microphone found. Please connect a microphone and try again."
  ELSE "Recording failed: "

\* what decodeAudioData hands to analyzeAudioBuffer
DecodedBuffers ==
  {[channelData |-> <<Zero, Zero, Zero, Zero>>, sampleRate |-> 1600],
   [channelData |-> <<One, Neg(One), One, Neg(One)>>, sampleRate |-> 1600]}

\* (Date.now() - startTimeRef.current), in milliseconds; 0 without a start time
ElapsedMs(r) ==
  IF r.startTimeRef = <<>> THEN 0 ELSE r.now - r.startTimeRef[1]

\* stopRecording: the interval of timerRef is cleared first; before
\* MIN_DURATION nothing else is done; after it the MediaRecorder of
\* mediaRecorderRef is stopped if it is recording, which queues its stop event
stopRecording(r) ==
  LET cleared == [r EXCEPT !.timers = @ \ {r.timerRef}]
      id == r.mediaRecorderRef
  IN IF ElapsedMs(r) < MIN_DURATION * 1000 THEN cleared
     ELSE IF id # 0 /\ r.recorders[id].state = "recording"
       THEN [cleared EXCEPT
               !.recorders[id] = [state |-> "inactive",
                                  startedAt |-> r.recorders[id].startedAt,
                                  duration |-> r.now - r.recorders[id].startedAt],
               !.stopping = @ \cup {id}]
     ELSE cleared

\* the interval callback
TimerCallback(r) ==
  LET shown == [r EXCEPT !.elapsedTime =
                  IF ElapsedMs(r) <= MAX_DURATION * 1000 THEN ElapsedMs(r)
                  ELSE MAX_DURATION * 1000]
  IN IF ElapsedMs(r) >= MAX_DURATION * 1000 THEN stopRecording(shown) ELSE shown

\* The recorder's actions leave the caller's buffer alone
RecorderStep(r) ==
  /\ recorder' = r
  /\ UNCHANGED <<audioBuffer, call, status, ret, freq, onsetList, retry, app, flow>>

\* RECORD is shown while status is idle; startRecording runs up to its await
ClickRecord ==
  /\ recorder.status = "idle"
  /\ recorder.pending + Len(recorder.recorders) < MaxRecorders
  /\ RecorderStep([recorder EXCEPT !.errorMessage = "",
                                   !.analysisResults = <<>>,
                                   !.analysisText = "",
                                   !.pending = @ + 1])

\* getUserMedia settles now
Settles(r) ==
  /\ r.pending > 0
  /\ \A id \in 1..Len(r.recorders) :
       r.recorders[id].state = "recording"
         => r.now - r.recorders[id].startedAt \in StartLatencies

\* getUserMedia resolves: the rest of the try block of startRecording
GetUserMediaResolves ==
  /\ Settles(recorder)
  /\ LET id == Len(recorder.recorders) + 1
     IN RecorderStep([recorder EXCEPT
          !.pending = @ - 1,
          !.streamRef = id,
          !.mediaRecorderRef = id,
          !.recorders = Append(@, [state |-> "recording",
                                   startedAt |-> recorder.now,
                                   duration |-> 0]),
          !.status = "recording",
          !.startTimeRef = <<recorder.now>>,
          !.elapsedTime = 0,
          !.timerRef = id,
          !.timers = @ \cup {id}])

\* getUserMedia rejects: the catch block of startRecording
GetUserMediaRejects ==
  /\ Settles(recorder)
  /\ \E name \in ErrorNames :
       RecorderStep([recorder EXCEPT !.pending = @ - 1,
                                     !.status = "error",
                                     !.errorMessage = RecordingErrorMessage(name)])

\* STOP is shown while status is recording
ClickStop ==
  /\ recorder.status = "recording"
  /\ ElapsedMs(recorder) \in StopPresses
  /\ RecorderStep(stopRecording(recorder))

\* TimerPeriod milliseconds pass while something is recording or timed, and
\* the callback of every live interval runs (a second run of the callback at
\* the same time changes nothing more)
Elapse ==
  /\ recorder.now + TimerPeriod <= MaxTime
  /\ \/ recorder.timers # {}
     \/ \E id \in 1..Len(recorder.recorders) :
          recorder.recorders[id].state = "recording"
  /\ LET later == [recorder EXCEPT !.now = @ + TimerPeriod]
     IN RecorderStep(IF recorder.timers # {} THEN TimerCallback(later) ELSE later)

\* the stop event of a MediaRecorder: onstop, and handleRecordingComplete up
\* to its await
OnStop ==
  \E id \in recorder.stopping :
    RecorderStep([recorder EXCEPT
      !.stopping = @ \ {id},
      !.status = "analyzing",
      !.decoding = @ \cup {id},
      !.handed = @ \cup {recorder.recorders[id].duration}])

\* decodeAudioData resolves: the rest of the try block of
\* handleRecordingComplete (the analysis returns at the sample rates of an
\* AudioContext)
DecodeResolves ==
  \E id \in recorder.decoding, decoded \in DecodedBuffers :
    LET results == analyzeAudioBuffer(decoded)
    IN /\ ~results.diverges
       /\ RecorderStep([recorder EXCEPT
            !.decoding = @ \ {id},
            !.analysisResults = <<results>>,
            !.analysisText = buildAnalysisText(results),
            !.status = "done"])

\* decodeAudioData rejects: the catch block of handleRecordingComplete
DecodeRejects ==
  \E id \in recorder.decoding :
    RecorderStep([recorder EXCEPT
      !.decoding = @ \ {id},
      !.status = "error",
      !.errorMessage = "Audio analysis failed: "])

\* RE-RECORD is shown while status is done, TRY AGAIN while it is error
resetRecording ==
  /\ recorder.status \in {"done", "error"}
  /\ RecorderStep([recorder EXCEPT !.status = "idle",
                                   !.elapsedTime = 0,
                                   !.errorMessage = "",
                                   !.analysisResults = <<>>,
                                   !.analysisText = ""])

RecorderInit ==
  /\ audioBuffer = [channelData |-> <<>>, sampleRate |-> 1600]
  /\ call = "none"
  /\ status = "idle"
  /\ ret = [diverges |-> FALSE]
  /\ recorder = Mounted
  /\ freq = Zero
  /\ onsetList = <<>>
  /\ retry = NotCalled
  /\ app = AppMounted("apiService.js")
  /\ flow = FlowMounted

RecorderNext ==
  \/ ClickRecord
  \/ GetUserMediaResolves
  \/ GetUserMediaRejects
  \/ ClickStop
  \/ Elapse
  \/ OnStop
  \/ DecodeResolves
  \/ DecodeRejects
  \/ resetRecording

RecorderSpec == RecorderInit /\ [][RecorderNext]_vars

(***************************************************************************)
(* Properties                                                              *)
(***************************************************************************)
Returned(name) == status = "returned" /\ call = name

\* every sample is zero (the empty buffer included)
Silent(channelData) == \A k \in 1..Len(channelData) : channelData[k] = Zero

\* the hop energies of the buffer are rational squares, so that MathSqrt
\* is exact on them
EnvelopeExact ==
  LET hopSize == HopSize(audioBuffer.sampleRate)
  IN  hopSize >= 1 =>
        \A k \in 1..EnvelopeLength(Len(audioBuffer.channelData), hopSize) :
          IsSquare(Div(SumSquares(audioBuffer.channelData,
                                  (k - 1) * hopSize, k * hopSize),
                       Num(hopSize, 1)))

IsBpmInRange(bpm) == bpm[2] = 1 /\ 60 <= bpm[1] /\ bpm[1] <= 200

\* bpm is 60000 / interval, halved or doubled some number of times, rounded
IsFoldOf(bpm, interval) ==
  \E k \in 0..3 :
    \/ bpm = MathRound(Div(Num(60000, 1), Mul(interval, Num(2 ^ k, 1))))
    \/ bpm = MathRound(Mul(Div(Num(60000, 1), interval), Num(2 ^ k, 1)))

\* C1: the tempo that detectTempo returns, and the tempo field of the
\* record that analyzeAudioBuffer returns, is an integer in 60..200: the
\* default 120 with fewer than 2 onsets, else 60000 / (an inter-onset
\* interval) halved or doubled into the range and rounded.
C1_TempoInRange ==
  /\ Returned("detectTempo") =>
        /\ IsBpmInRange(ret.bpm)
        /\ \/ ret.bpm = Num(120, 1)
           \/ \E k \in 1..(Len(ret.onsets) - 1) :
                IsFoldOf(ret.bpm, Sub(ret.onsets[k + 1], ret.onsets[k]))
  /\ Returned("analyzeAudioBuffer") => IsBpmInRange(ret.tempo)

\* two onsets more than a second apart: 60000 / interval is below 60 and
\* has been doubled
C1_Witness ==
  /\ Returned("detectTempo")
  /\ Len(ret.onsets) = 2
  /\ Gt(Sub(ret.onsets[2], ret.onsets[1]), Num(1000, 1))
  /\ ret.bpm # Num(120, 1)

\* C2: the onsets that detectTempo returns are strictly increasing in time
\* and consecutive onsets are at least 100 ms apart.
C2_OnsetsSpaced ==
  Returned("detectTempo") =>
    \A k \in 1..(Len(ret.onsets) - 1) :
      /\ Lt(ret.onsets[k], ret.onsets[k + 1])
      /\ Ge(Sub(ret.onsets[k + 1], ret.onsets[k]), Num(100, 1))

\* at least two onsets were accepted and at least one peak was dropped
C2_Witness ==
  /\ Returned("detectTempo")
  /\ Len(ret.onsets) >= 2
  /\ Cardinality(Candidates(Normalize(Envelope(audioBuffer.channelData,
                                                HopSize(audioBuffer.sampleRate)))))
       > Len(ret.onsets)

AnalysisFields ==
  {"diverges", "tempo", "key", "note", "frequency", "energy", "energyLevel",
   "rhythm", "contour", "channelData"}

\* C3: every call of analyzeAudioBuffer returns, with a complete record.
C3_AlwaysReturns ==
  call = "analyzeAudioBuffer" =>
    status = "returned" /\ DOMAIN ret = AnalysisFields

\* C5: no call changes the caller's sample array or sample rate.
C5_BufferUnchanged == [][audioBuffer' = audioBuffer]_vars

\* detectTempo has returned after sorting intervals that were not in
\* ascending order
C5_Witness ==
  /\ Returned("detectTempo")
  /\ Len(ret.onsets) >= 3
  /\ Gt(Sub(ret.onsets[2], ret.onsets[1]), Sub(ret.onsets[3], ret.onsets[2]))

IsUnitInterval(x) == IsFinite(x) /\ Le(Zero, x) /\ Le(x, One)

\* C6: the fields of every returned record are in their domains: energy
\* is a number in [0, 1], energyLevel, rhythm and contour are one of their
\* three names.
C6_FieldDomains ==
  /\ Returned("analyzeAudioBuffer") =>
        /\ IsUnitInterval(ret.energy)
        /\ ret.energyLevel \in {"low", "moderate", "high"}
        /\ ret.rhythm \in {"straight", "swing", "syncopated"}
        /\ ret.contour \in {"ascending", "descending", "oscillating"}
  /\ Returned("calculateEnergy") =>
        /\ IsUnitInterval(ret.energy)
        /\ ret.level \in {"low", "moderate", "high"}
  /\ Returned("detectContour") =>
        ret.contour \in {"ascending", "descending", "oscillating"}

ChromaticNames == {"C", "C#", "D", "D#", "E", "F", "F#", "G", "G#", "A", "A#", "B"}

IsPositive(x) == IsFinite(x) /\ Gt(x, Zero)

\* C7: the note that detectPitch reports (and the note field of the
\* analysis record) is one of the 12 chromatic names, and for a buffer with
\* a nonzero sample the reported frequency is greater than 0.
C7_NoteAndFrequency ==
  (Returned("detectPitch") \/ Returned("analyzeAudioBuffer")) =>
    /\ ret.note \in ChromaticNames
    /\ ~Silent(audioBuffer.channelData) => IsPositive(ret.frequency)

\* detectPitch has returned for a buffer that is not silent, with a note
\* other than the fallback C
C7_Witness ==
  /\ Returned("detectPitch")
  /\ ~Silent(audioBuffer.channelData)
  /\ ret.note # "C"

\* C8: for a buffer whose samples are all zero, of any length,
\* calculateEnergy returns energy 0 and level "low".
C8_SilentEnergy ==
  (Returned("calculateEnergy") /\ Silent(audioBuffer.channelData)) =>
    ret.energy = Zero /\ ret.level = "low"

\* C9: with fewer than 2 onsets detectTempo returns 120, and for a silent
\* buffer there is no onset at all.
C9_DefaultTempo ==
  Returned("detectTempo") =>
    /\ Len(ret.onsets) < 2 => ret.bpm = Num(120, 1)
    /\ Silent(audioBuffer.channelData) => ret.onsets = <<>> /\ ret.bpm = Num(120, 1)

\* exactly one onset was detected
C9_Witness == Returned("detectTempo") /\ Len(ret.onsets) = 1

\* C10: for a buffer whose samples are all zero detectContour returns
\* "oscillating" (and so does the contour field of the analysis record).
C10_SilentContour ==
  /\ (Returned("detectContour") /\ Silent(audioBuffer.channelData)) =>
        ret.contour = "oscillating"
  /\ (Returned("analyzeAudioBuffer") /\ Silent(audioBuffer.channelData)) =>
        ret.contour = "oscillating"

\* detectContour has returned for a silent buffer whose 6 segments hold at
\* least 2 samples each
C10_Witness ==
  /\ Returned("detectContour")
  /\ Silent(audioBuffer.channelData)
  /\ Len(audioBuffer.channelData) >= 2 * numSegments

RECURSIVE ParseDecimal(_, _)
\* the natural number that a string of decimal digits denotes
ParseDecimal(str, acc) ==
  IF str = "" THEN acc
  ELSE ParseDecimal(Tail(str),
                    10 * acc + (CHOOSE d \in 0..9 : DigitChars[d + 1] = Head(str)))

TextFields == {"tempo", "key", "energyLevel", "rhythm", "contour"}

\* what follows the tempo in the text of a record
TextTail(results) ==
  " BPM, " \o results.key \o ", " \o results.energyLevel \o " energy, "
    \o results.rhythm \o " rhythm, " \o results.contour \o " melody"

\* C11: the text that buildAnalysisText returns is the tempo in decimal
\* digits (reading them back gives the tempo), followed by " BPM, ", the
\* key, ", ", the energy level, " energy, ", the rhythm, " rhythm, ", the
\* contour and " melody"; it is the text of the record cut down to these
\* five fields; and the record {100, "C major", "high", "swing",
\* "ascending"} gives "100 BPM, C major, high energy, swing rhythm,
\* ascending melody".
C11_AnalysisText ==
  Returned("buildAnalysisText") =>
    LET results == ret.results
        tailLen == Len(TextTail(results))
        headLen == Len(ret.text) - tailLen
    IN  /\ headLen >= 1
        /\ SubSeq(ret.text, headLen + 1, Len(ret.text)) = TextTail(results)
        /\ \A k \in 1..headLen :
             \E d \in 0..9 : SubSeq(ret.text, k, k) = DigitChars[d + 1]
        /\ Num(ParseDecimal(SubSeq(ret.text, 1, headLen), 0), 1) = results.tempo
        /\ ret.text = buildAnalysisText([f \in TextFields |-> results[f]])
        /\ (/\ results.tempo = Num(100, 1) /\ results.key = "C major"
            /\ results.energyLevel = "high" /\ results.rhythm = "swing"
            /\ results.contour = "ascending")
           => ret.text = "100 BPM, C major, high energy, swing rhythm, ascending melody"

\* the text of an analysis record (which has more than the five fields)
\* whose tempo is not the default
C11_Witness ==
  /\ Returned("buildAnalysisText")
  /\ "frequency" \in DOMAIN ret.results
  /\ ret.results.tempo # Num(120, 1)

\* the bucket of an energy value: "low" below 0.3, "moderate" below 0.6
EnergyBucket(energy) ==
  IF Lt(energy, Num(3, 10)) THEN "low"
  ELSE IF Lt(energy, Num(6, 10)) THEN "moderate"
  ELSE "high"

\* x is Math.sqrt(sq) rounded to 2 decimals: x = k / 100 for the integer k
\* with k - 1/2 <= 100 * Math.sqrt(sq) < k + 1/2
IsRootRoundedTo2(x, sq) ==
  \E k \in 0..100 :
    /\ x = Num(k, 100)
    /\ k >= 1 => Le(Num((2 * k - 1) * (2 * k - 1), 40000), sq)
    /\ Lt(sq, Num((2 * k + 1) * (2 * k + 1), 40000))

\* C12: for a buffer with at least one sample, the energy that
\* calculateEnergy returns is min(3 * RMS, 1) rounded to 2 decimals, and the
\* level it returns is the bucket of that returned energy.
C12_EnergyBucket ==
  (Returned("calculateEnergy") /\ Len(audioBuffer.channelData) >= 1) =>
    LET channelData == audioBuffer.channelData
        rmsSq == Div(SumSquares(channelData, 0, Len(channelData)),
                     Num(Len(channelData), 1))
    IN  /\ IsRootRoundedTo2(ret.energy, MathMin(Mul(rmsSq, Num(9, 1)), One))
        /\ ret.level = EnergyBucket(ret.energy)

\* the part of C12 that the code satisfies: the returned energy is
\* min(3 * RMS, 1) rounded to 2 decimals
EnergyRounded ==
  (Returned("calculateEnergy") /\ Len(audioBuffer.channelData) >= 1) =>
    LET channelData == audioBuffer.channelData
        rmsSq == Div(SumSquares(channelData, 0, Len(channelData)),
                     Num(Len(channelData), 1))
    IN  IsRootRoundedTo2(ret.energy, MathMin(Mul(rmsSq, Num(9, 1)), One))

\* C13: in every record that analyzeAudioBuffer returns, key is the note,
\* a space, and "major" if the energy of the record is greater than 0.4,
\* "minor" otherwise (whatever the note and the frequency are).
C13_KeyQuality ==
  Returned("analyzeAudioBuffer") =>
    ret.key = ret.note \o " " \o (IF Gt(ret.energy, Num(4, 10)) THEN "major" ELSE "minor")

\* a record whose energy is exactly 0.4
C13_Witness == Returned("analyzeAudioBuffer") /\ ret.energy = Num(4, 10)

\* 4 seconds of samples that are zero except for clicks of one amplitude,
\* one sample long and exactly 500 ms apart, from some first click on
IsClickTrain(buffer) ==
  LET channelData == buffer.channelData
      period == buffer.sampleRate \div 2
  IN  /\ buffer.sampleRate % 2 = 0
      /\ Len(channelData) = 4 * buffer.sampleRate
      /\ \E offset \in 0..(period - 1) :
           /\ At(channelData, offset) # Zero
           /\ \A j \in 0..(Len(channelData) - 1) :
                At(channelData, j) =
                  IF j >= offset /\ (j - offset) % period = 0
                    THEN At(channelData, offset) ELSE Zero

\* C14: for a click train with clicks exactly 500 ms apart over 4 seconds
\* detectTempo returns a tempo within 1 of 120.
C14_ClickTrainTempo ==
  (Returned("detectTempo") /\ IsClickTrain(audioBuffer)) =>
    /\ Le(Num(119, 1), ret.bpm)
    /\ Le(ret.bpm, Num(121, 1))

\* detectTempo has returned for a click train, with at least 6 onsets, all
\* 500 ms after the one before
C14_Witness ==
  /\ Returned("detectTempo")
  /\ IsClickTrain(audioBuffer)
  /\ Len(ret.onsets) >= 6
  /\ \A k \in 1..(Len(ret.onsets) - 1) :
       Sub(ret.onsets[k + 1], ret.onsets[k]) = Num(500, 1)

\* 2 seconds of a 440 Hz sine of RMS amplitude 1/2 at 44100 Hz
IsSine440(buffer) ==
  /\ buffer.sampleRate = 44100
  /\ Len(buffer.channelData) = 2 * 44100
  /\ buffer.channelData = RoundedSine(44100, 440, 2 * 44100)

\* C15: for a 2-second buffer of a 440 Hz sine at 44100 Hz detectPitch
\* returns note "A" and a frequency within 1% of 440 Hz.
C15_Sine440 ==
  (Returned("detectPitch") /\ IsSine440(audioBuffer)) =>
    /\ ret.note = "A"
    /\ Le(Num(4356, 10), ret.frequency)
    /\ Le(ret.frequency, Num(4444, 10))

\* what the code returns for that buffer: the note A, from a lag of 401
\* samples (4 periods), i.e. 110 Hz
Sine440Subharmonic ==
  (Returned("detectPitch") /\ IsSine440(audioBuffer)) =>
    ret.note = "A" /\ ret.frequency = Num(110, 1)


\* C16: every recording handed to analysis lasts between MIN_DURATION and
\* MAX_DURATION seconds (a stop request before MIN_DURATION is ignored, and
\* the recording is stopped when the elapsed time reaches MAX_DURATION,
\* whatever stop presses happened before)
C16_RecordingLength ==
  \A duration \in recorder.handed :
    /\ duration >= MIN_DURATION * 1000
    /\ duration <= MAX_DURATION * 1000

\* a stop request before MIN_DURATION leaves the MediaRecorder recording
C16_EarlyStopIgnored ==
  [][(ClickStop /\ ElapsedMs(recorder) < MIN_DURATION * 1000)
       => recorder'.recorders = recorder.recorders]_vars

\* C17: the analysis of a recording starts only after its MediaRecorder has
\* stopped; no MediaRecorder is started while status is recording or
\* analyzing; status moves idle -> recording -> analyzing -> done or error
\* (idle -> error when the microphone is refused), and back to idle only by
\* resetRecording from done or error
StatusMoves ==
  {<<"idle", "recording">>, <<"idle", "error">>,
   <<"recording", "analyzing">>,
   <<"analyzing", "done">>, <<"analyzing", "error">>,
   <<"done", "idle">>, <<"error", "idle">>}

C17_StatusOrder ==
  [][/\ \A id \in recorder'.decoding : recorder'.recorders[id].state = "inactive"
     /\ Len(recorder'.recorders) > Len(recorder.recorders)
          => recorder.status \notin {"recording", "analyzing"}
     /\ recorder'.status # recorder.status
          => <<recorder.status, recorder'.status>> \in StatusMoves
     /\ (recorder'.status = "idle" /\ recorder.status # "idle")
          => resetRecording]_vars

\* the analysis of a recording starts only after its MediaRecorder has stopped
AnalysisAfterStop ==
  \A id \in recorder.decoding : recorder.recorders[id].state = "inactive"


\* the hop of the design: round(sampleRate * 0.01) samples
RoundedHop(sampleRate) == MathRound(Mul(Num(sampleRate, 1), Num(1, 100)))[1]

\* C18: the envelope that detectTempo computes has one entry for each
\* complete hop of round(sampleRate * 0.01) samples, floor(length / hop)
\* entries, entry k the RMS of the k-th hop; a complete hop is never dropped
C18_EnvelopeLength ==
  Returned("detectTempo") =>
    LET channelData == audioBuffer.channelData
        hop == RoundedHop(audioBuffer.sampleRate)
        envelope == Envelope(channelData, HopSize(audioBuffer.sampleRate))
    IN  /\ Len(envelope) = Len(channelData) \div hop
        /\ \A k \in 1..Len(envelope) :
             envelope[k] = MathSqrt(Div(SumSquares(channelData, (k - 1) * hop, k * hop),
                                        Num(hop, 1)))

\* what the loop of line 62 does: with a hop of Math.floor(sampleRate * 0.01)
\* samples, the last complete hop is dropped when nothing follows it
EnvelopeDropsLastHop ==
  Returned("detectTempo") =>
    LET length == Len(audioBuffer.channelData)
        hopSize == HopSize(audioBuffer.sampleRate)
        envelope == Envelope(audioBuffer.channelData, hopSize)
    IN  hopSize >= 1 =>
          Len(envelope) = IF length % hopSize = 0 /\ length > 0
                            THEN length \div hopSize - 1
                            ELSE length \div hopSize


\* the envelope of the buffer has an entry of at least the floor of line 71
ReachesFloor(envelope) ==
  \E k \in 1..Len(envelope) : Ge(envelope[k], EnvelopeFloor)

\* some complete hop of hopSize samples has a non-zero sample
HasLoudHop(channelData, hopSize) ==
  \E k \in 1..(Len(channelData) \div hopSize) :
    \E j \in ((k - 1) * hopSize + 1)..(k * hopSize) : channelData[j] # Zero

\* C19: every value of the normalized envelope that detectTempo computes is
\* in [0, 1]; if the buffer has a complete hop that is not silent, the
\* greatest value is exactly 1; an empty or silent buffer gives an empty or
\* all-zero envelope
C19_NormalizedEnvelope ==
  (Returned("detectTempo") /\ HopSize(audioBuffer.sampleRate) >= 1) =>
    LET hopSize == HopSize(audioBuffer.sampleRate)
        normalized == Normalize(Envelope(audioBuffer.channelData, hopSize))
    IN  /\ \A k \in 1..Len(normalized) : IsUnitInterval(normalized[k])
        /\ HasLoudHop(audioBuffer.channelData, hopSize)
             => /\ \E k \in 1..Len(normalized) : normalized[k] = One
        /\ Silent(audioBuffer.channelData)
             => \A k \in 1..Len(normalized) : normalized[k] = Zero

\* what lines 71-72 give: values in [0, 1], the greatest one 1 exactly when
\* an envelope entry reaches the floor, all zero on silence
NormalizedByFlooredMax ==
  (Returned("detectTempo") /\ HopSize(audioBuffer.sampleRate) >= 1) =>
    LET envelope == Envelope(audioBuffer.channelData, HopSize(audioBuffer.sampleRate))
        normalized == Normalize(envelope)
    IN  /\ \A k \in 1..Len(normalized) : IsUnitInterval(normalized[k])
        /\ ReachesFloor(envelope) <=> \E k \in 1..Len(normalized) : normalized[k] = One
        /\ Silent(audioBuffer.channelData)
             => \A k \in 1..Len(normalized) : normalized[k] = Zero

\* a quiet buffer none of whose complete hops is dropped by the loop of
\* line 62, and whose greatest normalized value is below 1
QuietBelowOne ==
  /\ Returned("detectTempo")
  /\ audioBuffer.sampleRate = 100
  /\ audioBuffer.channelData = <<Num(1, 20000), Zero>>
  /\ Normalize(Envelope(audioBuffer.channelData, 1)) = <<Num(1, 2)>>


\* index i (from 0) of the envelope passes the tests of the design: it is at
\* least 8, it has a successor, its value is above 1.5 times the mean of the
\* 8 values before it plus 0.05, above the value before it, and not below
\* the value after it
IsOnsetCandidate(envelope, i) ==
  /\ i >= 8
  /\ i + 1 <= Len(envelope) - 1
  /\ Gt(envelope[i + 1],
        Add(Mul(Num(15, 10),
                Div(SumRange([j \in (i - 8)..(i - 1) |-> envelope[j + 1]], i - 8, i - 1),
                    Num(8, 1))),
            Num(5, 100)))
  /\ Gt(envelope[i + 1], envelope[i])
  /\ Ge(envelope[i + 1], envelope[i + 2])

\* C20: every onset that detectTempo reports is the time of an envelope
\* index that is an onset candidate (at least 8, with a successor, passing
\* the three tests), and every onset candidate is reported unless it is
\* within 100 ms after a reported onset
C20_OnsetCandidates ==
  (Returned("detectTempo") /\ HopSize(audioBuffer.sampleRate) >= 1) =>
    LET hopSize == HopSize(audioBuffer.sampleRate)
        computed == Normalize(Envelope(audioBuffer.channelData, hopSize))
        envelope == SubSeq(computed, 1, Len(computed))
        onsets == {ret.onsets[n] : n \in 1..Len(ret.onsets)}
        timeMs(i) == TimeMs(i, hopSize, audioBuffer.sampleRate)
    IN  /\ \A t \in onsets :
             \E i \in 0..(Len(envelope) - 1) :
               t = timeMs(i) /\ IsOnsetCandidate(envelope, i)
        /\ \A i \in 0..(Len(envelope) - 1) :
             IsOnsetCandidate(envelope, i) =>
               \/ timeMs(i) \in onsets
               \/ \E t \in onsets :
                    Lt(t, timeMs(i)) /\ Le(Sub(timeMs(i), t), MinGapMs)

\* a call that reports the candidate at index 8 and a later one, and drops a
\* candidate that follows a reported onset too closely
C20_Witness ==
  /\ Returned("detectTempo")
  /\ Len(ret.onsets) = 2
  /\ ret.onsets[1] = TimeMs(8, HopSize(audioBuffer.sampleRate), audioBuffer.sampleRate)
  /\ LET hopSize == HopSize(audioBuffer.sampleRate)
         computed == Normalize(Envelope(audioBuffer.channelData, hopSize))
         envelope == SubSeq(computed, 1, Len(computed))
     IN  Cardinality({i \in 0..(Len(envelope) - 1) : IsOnsetCandidate(envelope, i)}) = 3


\* C21: the minimum gap is measured from the last accepted onset: a
\* candidate is accepted exactly when no accepted onset lies within 100 ms
\* before it, whatever dropped candidates lie in between; the first
\* candidate is always accepted
C21_GapFromAccepted ==
  (Returned("detectTempo") /\ HopSize(audioBuffer.sampleRate) >= 1) =>
    LET hopSize == HopSize(audioBuffer.sampleRate)
        computed == Normalize(Envelope(audioBuffer.channelData, hopSize))
        envelope == SubSeq(computed, 1, Len(computed))
        onsets == {ret.onsets[n] : n \in 1..Len(ret.onsets)}
        timeMs(i) == TimeMs(i, hopSize, audioBuffer.sampleRate)
        candidates == {i \in 0..(Len(envelope) - 1) : IsOnsetCandidate(envelope, i)}
    IN  /\ \A i \in candidates :
             timeMs(i) \in onsets
               <=> ~\E t \in onsets :
                      Lt(t, timeMs(i)) /\ Le(Sub(timeMs(i), t), MinGapMs)
        /\ \A i \in candidates :
             (\A j \in candidates : i <= j) => ret.onsets[1] = timeMs(i)

\* three candidates a < b < c: b is dropped as within 100 ms of a, and c is
\* accepted, more than 100 ms after a and less than 100 ms after b
C21_Witness ==
  /\ Returned("detectTempo")
  /\ audioBuffer.sampleRate = 100
  /\ LET computed == Normalize(Envelope(audioBuffer.channelData, 1))
         envelope == SubSeq(computed, 1, Len(computed))
     IN  /\ Len(envelope) > 20
         /\ IsOnsetCandidate(envelope, 8)
         /\ IsOnsetCandidate(envelope, 14)
         /\ IsOnsetCandidate(envelope, 20)
  /\ ret.onsets = <<TimeMs(8, 1, 100), TimeMs(20, 1, 100)>>


\* m is the element at index floor(n / 2) (from 0) of the n values sorted
\* ascending: at most floor(n / 2) values are below it, more are not above it
IsUpperMedian(values, m) ==
  /\ \E n \in 1..Len(values) : values[n] = m
  /\ Cardinality({n \in 1..Len(values) : Lt(values[n], m)}) <= Len(values) \div 2
  /\ Cardinality({n \in 1..Len(values) : Le(values[n], m)}) > Len(values) \div 2

\* v is x halved while above 200 and doubled while below 60
IsFolded(x, v) ==
  \E k \in 0..4 :
    \/ /\ Gt(x, Num(200, 1)) /\ k >= 1
       /\ v = Div(x, Num(2 ^ k, 1))
       /\ Le(v, Num(200, 1)) /\ Gt(Mul(v, Num(2, 1)), Num(200, 1))
    \/ /\ Lt(x, Num(60, 1)) /\ k >= 1
       /\ v = Mul(x, Num(2 ^ k, 1))
       /\ Ge(v, Num(60, 1)) /\ Lt(Div(v, Num(2, 1)), Num(60, 1))
    \/ /\ Le(x, Num(200, 1)) /\ Ge(x, Num(60, 1)) /\ k = 0
       /\ v = x

\* n is the integer nearest to v, the upper one at a tie
IsNearestInteger(v, n) ==
  /\ n[2] = 1
  /\ Le(Sub(n, Num(1, 2)), v)
  /\ Lt(v, Add(n, Num(1, 2)))

\* C22: with at least one interval, the tempo detectTempo returns is the
\* nearest integer to 60000 / median folded into 60..200, the median being
\* the element at index floor(n / 2) of the sorted intervals; the returned
\* onsets are in time order
C22_MedianTempo ==
  (Returned("detectTempo") /\ Len(ret.onsets) >= 2) =>
    LET intervals == [n \in 1..(Len(ret.onsets) - 1) |->
                        Sub(ret.onsets[n + 1], ret.onsets[n])]
    IN  /\ \A n \in 1..(Len(ret.onsets) - 1) : Lt(ret.onsets[n], ret.onsets[n + 1])
        /\ \E n \in 1..Len(intervals) :
             /\ IsUpperMedian(intervals, intervals[n])
             /\ \E k \in 0..4, up \in BOOLEAN :
                  LET v == IF up THEN Mul(Div(Num(60000, 1), intervals[n]), Num(2 ^ k, 1))
                           ELSE Div(Div(Num(60000, 1), intervals[n]), Num(2 ^ k, 1))
                  IN  /\ IsFolded(Div(Num(60000, 1), intervals[n]), v)
                      /\ IsNearestInteger(v, ret.bpm)

\* two intervals, the first the longer one: the sort moves it, the median
\* is the longer one, and the onsets stay as they were found
C22_Witness ==
  /\ Returned("detectTempo")
  /\ Len(ret.onsets) = 3
  /\ Gt(Sub(ret.onsets[2], ret.onsets[1]), Sub(ret.onsets[3], ret.onsets[2]))
  /\ ret.bpm = MathRound(Div(Num(60000, 1), Sub(ret.onsets[2], ret.onsets[1])))


\* round(sampleRate / d)
RoundedQuotient(sampleRate, d) == MathRound(Div(Num(sampleRate, 1), Num(d, 1)))[1]

\* C23: the lag that detectPitch selects lies between round(sampleRate / 1000)
\* and round(sampleRate / 60), and the detected frequency sampleRate / lag
\* lies within 60 to 1000 Hz, for every sample rate and buffer length
C23_LagRange ==
  (call = "detectPitch" /\ status # "idle") =>
    LET lag == BestLag(audioBuffer)
    IN  /\ lag >= RoundedQuotient(audioBuffer.sampleRate, 1000)
        /\ lag <= RoundedQuotient(audioBuffer.sampleRate, 60)
        /\ lag > 0
        /\ Ge(DetectedFreq(audioBuffer.sampleRate, lag), Num(60, 1))
        /\ Le(DetectedFreq(audioBuffer.sampleRate, lag), Num(1000, 1))

\* what lines 131-159 give: the selected lag lies between
\* Math.floor(sampleRate / 1000) and Math.floor(sampleRate / 60), and when it
\* is not 0 the detected frequency is at least 60 Hz
LagInFloorRange ==
  (call = "detectPitch" /\ status # "idle") =>
    LET lag == BestLag(audioBuffer)
    IN  /\ lag >= MinLag(audioBuffer.sampleRate)
        /\ lag <= MaxLag(audioBuffer.sampleRate)
        /\ lag > 0 => Ge(DetectedFreq(audioBuffer.sampleRate, lag), Num(60, 1))

\* detectPitch returns a frequency above 1000 Hz
FrequencyAbove1000 ==
  /\ Returned("detectPitch")
  /\ Gt(ret.frequency, Num(1000, 1))


\* v is f doubled or halved some number of times, and lo <= v < hi
IsFoldedInto(f, v, lo, hi) ==
  /\ \E k \in 0..(2 * MaxOctaves + 2) :
       v = Mul(f, Num(2 ^ k, 1)) \/ v = Div(f, Num(2 ^ k, 1))
  /\ Le(lo, v) /\ Lt(v, hi)

\* note is the table note nearest to v, the first one in table order at a tie
IsNearestNote(v, note) ==
  \E i \in 1..Len(NOTE_FREQUENCIES) :
    /\ NOTE_FREQUENCIES[i].note = note
    /\ \A j \in 1..Len(NOTE_FREQUENCIES) :
         /\ Le(MathAbs(Sub(v, NOTE_FREQUENCIES[i].freq)),
               MathAbs(Sub(v, NOTE_FREQUENCIES[j].freq)))
         /\ j < i => Lt(MathAbs(Sub(v, NOTE_FREQUENCIES[i].freq)),
                        MathAbs(Sub(v, NOTE_FREQUENCIES[j].freq)))

\* frequencyToNote has returned the nearest note of freq folded into
\* [261.63, hi), and the same note as for the octave below
FoldsAndMatches(hi) ==
  Returned("frequencyToNote") =>
    /\ \E k \in 0..(2 * MaxOctaves + 2), up \in BOOLEAN :
         LET v == IF up THEN Mul(freq, Num(2 ^ k, 1)) ELSE Div(freq, Num(2 ^ k, 1))
         IN  /\ IsFoldedInto(freq, v, Num(26163, 100), hi)
             /\ IsNearestNote(v, ret.note)
    /\ "below" \in DOMAIN ret => ret.note = ret.below

GivenIntervals ==
  [k \in 1..(Len(onsetList[1]) - 1) |-> Sub(onsetList[1][k + 1], onsetList[1][k])]

\* CV = stddev / mean of the values is above 0.35; the values are not
\* negative, and with a mean of 0 the CV is 0 / 0, above nothing
CvAbove035(values) ==
  LET n == Len(values)
      mean == Div(SumRange(values, 1, n), Num(n, 1))
      variance == Div(SumRange([k \in 1..n |->
                                  Mul(Sub(values[k], mean), Sub(values[k], mean))],
                               1, n),
                      Num(n, 1))
  IN  /\ Gt(mean, Zero)
      /\ Gt(variance, Mul(Mul(Num(35, 100), mean), Mul(Num(35, 100), mean)))

\* the pair (values[i], values[i + 1]), indices from 0, is swung: the ratio is
\* strictly between 1.3 and 2.2, a zero second value being replaced by the first
IsSwungPair(values, i) ==
  LET divisor == IF values[i + 2] = Zero THEN values[i + 1] ELSE values[i + 2]
      ratio == Div(values[i + 1], divisor)
  IN  Gt(ratio, Num(13, 10)) /\ Lt(ratio, Num(22, 10))

\* C25: classifyRhythm returns "straight" for a missing onset list and for
\* fewer than 3 onsets; with fewer than 4 intervals it never returns
\* "swing", and the CV test alone decides between "syncopated" and "straight"
C25_FewOnsets ==
  Returned("classifyRhythm") =>
    /\ onsetList = <<>> => ret.rhythm = "straight"
    /\ (onsetList # <<>> /\ Len(onsetList[1]) < 3) => ret.rhythm = "straight"
    /\ (onsetList # <<>> /\ Len(onsetList[1]) \in 3..4) =>
         ret.rhythm = IF CvAbove035(GivenIntervals) THEN "syncopated" ELSE "straight"

\* three intervals whose first pair is swung, and a CV that is not above 0.35
C25_Witness ==
  /\ Returned("classifyRhythm")
  /\ onsetList # <<>>
  /\ Len(onsetList[1]) = 4
  /\ IsSwungPair(GivenIntervals, 0)
  /\ ret.rhythm = "straight"

\* C26: with at least 4 intervals, swingScore is the number of swung pairs
\* at even indices divided by floor(count / 2), it lies in [0, 1], and the
\* result is "swing" if swingScore > 0.5, else "syncopated" if CV > 0.35,
\* else "straight"
C26_SwingDecision ==
  (Returned("classifyRhythm") /\ onsetList # <<>> /\ Len(onsetList[1]) >= 5) =>
    LET n == Len(GivenIntervals)
        swung == Cardinality({i \in 0..(n - 2) : i % 2 = 0 /\ IsSwungPair(GivenIntervals, i)})
        swingScore == Div(Num(swung, 1), Num(n \div 2, 1))
    IN  /\ IsUnitInterval(swingScore)
        /\ ret.rhythm = IF Gt(swingScore, Num(1, 2)) THEN "swing"
                        ELSE IF CvAbove035(GivenIntervals) THEN "syncopated"
                        ELSE "straight"

\* five intervals with both pairs at even indices swung and a CV above 0.35:
\* the swing test comes first
C26_Witness ==
  /\ Returned("classifyRhythm")
  /\ onsetList # <<>>
  /\ Len(onsetList[1]) = 6
  /\ IsSwungPair(GivenIntervals, 0) /\ IsSwungPair(GivenIntervals, 2)
  /\ CvAbove035(GivenIntervals)
  /\ ret.rhythm = "swing"


\* the zero-crossing pitch proxies of 6 contiguous segments of
\* floor(length / 6) samples: segment s (from 0) holds samples
\* s * size + 1 .. (s + 1) * size, and its proxy is
\* crossings * sampleRate / (2 * size)
PitchProxies(channelData, sampleRate) ==
  LET size == Len(channelData) \div 6
      negative(j) == Lt(channelData[j], Zero)
  IN  [s \in 1..6 |->
         Div(Num(Cardinality({j \in ((s - 1) * size + 2)..(s * size) :
                                negative(j) # negative(j - 1)}) * sampleRate, 1),
             Num(2 * size, 1))]

\* the sign reversals between consecutive differences of the proxies
SignReversals(proxies) ==
  Cardinality({i \in 2..5 :
                 LET before == Sub(proxies[i], proxies[i - 1])
                     after == Sub(proxies[i + 1], proxies[i])
                 IN  \/ Gt(before, Zero) /\ Lt(after, Zero)
                     \/ Lt(before, Zero) /\ Gt(after, Zero)})

\* the slope of the least-squares line through (0, p1) .. (5, p6), as
\* sum((x - 5/2) * p) / sum((x - 5/2)^2), divided by the mean of the
\* proxies; 0 when the mean is not above 0
SlopeOverMean(proxies) ==
  LET average == Div(SumRange(proxies, 1, 6), Num(6, 1))
      slope == Div(SumRange([x \in 1..6 |-> Mul(Num(2 * x - 7, 2), proxies[x])], 1, 6),
                   Num(35, 2))
  IN  IF Gt(average, Zero) THEN Div(slope, average) ELSE Zero

\* C27: detectContour decides on the proxies of 6 contiguous segments of
\* floor(length / 6) samples: "oscillating" if there are 2 or more sign
\* reversals, else "ascending" if slope / average > 0.02, else "descending"
\* if it is < -0.02, else "oscillating"
C27_ContourDecision ==
  Returned("detectContour") =>
    LET proxies == PitchProxies(audioBuffer.channelData, audioBuffer.sampleRate)
    IN  ret.contour =
          IF SignReversals(proxies) >= 2 THEN "oscillating"
          ELSE IF Gt(SlopeOverMean(proxies), Num(2, 100)) THEN "ascending"
          ELSE IF Lt(SlopeOverMean(proxies), Num(-2, 100)) THEN "descending"
          ELSE "oscillating"

\* a rising trend with 2 sign reversals, and samples left over after the
\* sixth segment: the reversals decide
C27_Witness ==
  /\ Returned("detectContour")
  /\ Len(audioBuffer.channelData) % 6 # 0
  /\ LET proxies == PitchProxies(audioBuffer.channelData, audioBuffer.sampleRate)
     IN  /\ SignReversals(proxies) = 2
         /\ Gt(SlopeOverMean(proxies), Num(2, 100))
  /\ ret.contour = "oscillating"

\* the three results of the slope test are all returned
ContourAscending == Returned("detectContour") /\ ret.contour = "ascending"

ContourDescending == Returned("detectContour") /\ ret.contour = "descending"

ContourFlat ==
  /\ Returned("detectContour")
  /\ ret.contour = "oscillating"
  /\ SignReversals(PitchProxies(audioBuffer.channelData, audioBuffer.sampleRate)) < 2
  /\ ~Silent(audioBuffer.channelData)


\* C28: retryWithBackoff calls fn at most maxRetries + 1 times; it returns
\* the value of the first call that succeeds, every call before it having
\* failed; the k-th wait is 2^(k-1) seconds and follows a failed attempt
\* that has a next one; after the last failed attempt it throws that
\* attempt's error with no wait
C28_RetryWithBackoff ==
  /\ retry.calls <= retry.maxRetries + 1
  /\ \A k \in 1..Len(retry.delays) : retry.delays[k] = 2 ^ (k - 1) * 1000
  /\ retry.pc = "fn" => Len(retry.errors) = retry.calls - 1
                         /\ Len(retry.delays) = retry.calls - 1
  /\ retry.pc = "timeout" => Len(retry.errors) = retry.calls
                              /\ Len(retry.delays) = retry.calls
                              /\ retry.calls <= retry.maxRetries
  /\ retry.pc = "returned" => /\ retry.value \in RetryValues
                              /\ Len(retry.errors) = retry.calls - 1
                              /\ Len(retry.delays) = retry.calls - 1
  /\ retry.pc = "thrown" => /\ retry.calls = retry.maxRetries + 1
                            /\ Len(retry.errors) = retry.calls
                            /\ retry.lastError = retry.errors[Len(retry.errors)]
                            /\ Len(retry.delays) = retry.maxRetries

\* the default of 2 retries: three failed attempts, waits of 1 s and 2 s,
\* and the third error thrown
C28_Witness ==
  /\ retry.pc = "thrown"
  /\ retry.maxRetries = 2
  /\ retry.calls = 3
  /\ retry.delays = <<1000, 2000>>
  /\ retry.errors = <<"TypeError", "TypeError", "HTTP 500">>
  /\ retry.lastError = "HTTP 500"


ProgressOrder ==
  <<"GENERATING_LYRICS", "GENERATING_MUSIC", "GENERATING_ARTWORK", "COMPLETE">>

\* COMPLETE has been given to onProgress by the present call
ReportedComplete ==
  \E k \in 1..Len(app.progress) : app.progress[k] = "COMPLETE"

\* the entries of errors that the image prompt and the artwork account for
ExpectedErrors ==
  (IF app.prompt = "rejected" THEN <<PromptFailed>> ELSE <<>>)
    \o (IF app.artwork = "null" THEN <<ArtworkFailed>> ELSE <<>>)

MusicFailedError ==
  /\ app.pc = "thrown"
  /\ app.music = "rejected"
  /\ app.progress = <<"GENERATING_LYRICS", "GENERATING_MUSIC">>
  /\ app.generationStep = "ERROR"


\* C30: currentStep stays within 0..questions.length - 1, so that the
\* current question is defined, however genre selections, their timers and
\* the BACK and NEXT presses interleave
C30_StepInRange ==
  /\ flow.currentStep \in 0..(Len(questions) - 1)
  /\ currentQuestion(flow) # Undefined

\* onComplete is called from the last step only
OnCompleteFromLastStep ==
  flow.completedFrom \subseteq {Len(questions) - 1}

\* the flow has completed from the last step
FlowCompleted ==
  flow.completedFrom = {2} /\ flow.answers.theme = "pi in the sky"

\* two timers of the genre question have fired: currentStep is 3, no
\* question is there and the render has thrown
SteppedPastTheEnd ==
  flow.currentStep = 3 /\ flow.crashed

================================================================================
